---- MODULE Spec2Model ----
(***************************************************************************)
(* Marching-cubes isosurface extraction (src/marching_cubes.py) and, of    *)
(* the viewer (src/render.py), the PLY reader and the camera.              *)
(*                                                                         *)
(* Numbers.  Lengths are integers counted in quarters of a world unit, so  *)
(* a stepsize of 0.5 is 2 and the integer volume bounds are multiples of   *)
(* 4; every edge midpoint is then an integer too.  Field values and the    *)
(* isovalue are counted in sixteenths (the square of a quarter).  The      *)
(* arithmetic is exact: the rounding of IEEE doubles is not modelled.      *)
(***************************************************************************)
EXTENDS Integers, Sequences, FiniteSets, TLC

VARIABLES
    pc,             \* where the program is: argv, start, scan, normals, write, read,
                    \* done, error; lookup, returned; camera
    args,           \* (scalar_field, isovalue, volume_min, volume_max, stepsize)
    iy, ix, iz,     \* positions of the three nested loops of marching_cubes
    case,           \* bitmask of the cube handled last
    edge_indices,   \* its row of the lookup table
    cube_vertices,  \* its vertex coordinates
    mesh_vertices,  \* the accumulator of marching_cubes
    vertices,       \* module level: what marching_cubes returned
    normals,        \* module level: what compute_normals returned
    file,           \* the PLY file: a sequence of lines, or NoFile
    ply,            \* what readPLY returned
    visited,        \* history: the cube origins handled so far, in order
    run,            \* number of the invocation in this process
    prev,           \* history: the results of the invocation before
    argv,           \* sys.argv: its length and its tokens
    exception,      \* the exception that ended the script, if any
    camera,         \* render.py: the Camera object (radius, theta, phi)
    loop,           \* render.py: the locals the render loop keeps between frames
    called          \* history: the camera method called last, and its increment

vars == <<pc, args, iy, ix, iz, case, edge_indices, cube_vertices,
          mesh_vertices, vertices, normals, file, ply, visited, run, prev,
          argv, exception, camera, loop, called>>

(***************************************************************************)
(* Bounds of the model.                                                    *)
(***************************************************************************)
\* volume_min and volume_max range over the integers -MaxWorld..MaxWorld
MaxWorld == 1
\* stepsize ranges over 0.5, 1.0, ... MaxStep * 0.5
MaxStep == 3

(***************************************************************************)
(* _lookup_configuration: the case table, copied row by row.               *)
(***************************************************************************)
lookup_table == <<
    <<>>,
    <<0, 8, 3>>,
    <<0, 1, 9>>,
    <<1, 8, 3, 9, 8, 1>>,
    <<1, 2, 10>>,
    <<0, 8, 3, 1, 2, 10>>,
    <<9, 2, 10, 0, 2, 9>>,
    <<2, 8, 3, 2, 10, 8, 10, 9, 8>>,
    <<3, 11, 2>>,
    <<0, 11, 2, 8, 11, 0>>,
    <<1, 9, 0, 2, 3, 11>>,
    <<1, 11, 2, 1, 9, 11, 9, 8, 11>>,
    <<3, 10, 1, 11, 10, 3>>,
    <<0, 10, 1, 0, 8, 10, 8, 11, 10>>,
    <<3, 9, 0, 3, 11, 9, 11, 10, 9>>,
    <<9, 8, 10, 10, 8, 11>>,
    <<4, 7, 8>>,
    <<4, 3, 0, 7, 3, 4>>,
    <<0, 1, 9, 8, 4, 7>>,
    <<4, 1, 9, 4, 7, 1, 7, 3, 1>>,
    <<1, 2, 10, 8, 4, 7>>,
    <<3, 4, 7, 3, 0, 4, 1, 2, 10>>,
    <<9, 2, 10, 9, 0, 2, 8, 4, 7>>,
    <<2, 10, 9, 2, 9, 7, 2, 7, 3, 7, 9, 4>>,
    <<8, 4, 7, 3, 11, 2>>,
    <<11, 4, 7, 11, 2, 4, 2, 0, 4>>,
    <<9, 0, 1, 8, 4, 7, 2, 3, 11>>,
    <<4, 7, 11, 9, 4, 11, 9, 11, 2, 9, 2, 1>>,
    <<3, 10, 1, 3, 11, 10, 7, 8, 4>>,
    <<1, 11, 10, 1, 4, 11, 1, 0, 4, 7, 11, 4>>,
    <<4, 7, 8, 9, 0, 11, 9, 11, 10, 11, 0, 3>>,
    <<4, 7, 11, 4, 11, 9, 9, 11, 10>>,
    <<9, 5, 4>>,
    <<9, 5, 4, 0, 8, 3>>,
    <<0, 5, 4, 1, 5, 0>>,
    <<8, 5, 4, 8, 3, 5, 3, 1, 5>>,
    <<1, 2, 10, 9, 5, 4>>,
    <<3, 0, 8, 1, 2, 10, 4, 9, 5>>,
    <<5, 2, 10, 5, 4, 2, 4, 0, 2>>,
    <<2, 10, 5, 3, 2, 5, 3, 5, 4, 3, 4, 8>>,
    <<9, 5, 4, 2, 3, 11>>,
    <<0, 11, 2, 0, 8, 11, 4, 9, 5>>,
    <<0, 5, 4, 0, 1, 5, 2, 3, 11>>,
    <<2, 1, 5, 2, 5, 8, 2, 8, 11, 4, 8, 5>>,
    <<10, 3, 11, 10, 1, 3, 9, 5, 4>>,
    <<4, 9, 5, 0, 8, 1, 8, 10, 1, 8, 11, 10>>,
    <<5, 4, 0, 5, 0, 11, 5, 11, 10, 11, 0, 3>>,
    <<5, 4, 8, 5, 8, 10, 10, 8, 11>>,
    <<9, 7, 8, 5, 7, 9>>,
    <<9, 3, 0, 9, 5, 3, 5, 7, 3>>,
    <<0, 7, 8, 0, 1, 7, 1, 5, 7>>,
    <<1, 5, 3, 3, 5, 7>>,
    <<9, 7, 8, 9, 5, 7, 10, 1, 2>>,
    <<10, 1, 2, 9, 5, 0, 5, 3, 0, 5, 7, 3>>,
    <<8, 0, 2, 8, 2, 5, 8, 5, 7, 10, 5, 2>>,
    <<2, 10, 5, 2, 5, 3, 3, 5, 7>>,
    <<7, 9, 5, 7, 8, 9, 3, 11, 2>>,
    <<9, 5, 7, 9, 7, 2, 9, 2, 0, 2, 7, 11>>,
    <<2, 3, 11, 0, 1, 8, 1, 7, 8, 1, 5, 7>>,
    <<11, 2, 1, 11, 1, 7, 7, 1, 5>>,
    <<9, 5, 8, 8, 5, 7, 10, 1, 3, 10, 3, 11>>,
    <<5, 7, 0, 5, 0, 9, 7, 11, 0, 1, 0, 10, 11, 10, 0>>,
    <<11, 10, 0, 11, 0, 3, 10, 5, 0, 8, 0, 7, 5, 7, 0>>,
    <<11, 10, 5, 7, 11, 5>>,
    <<10, 6, 5>>,
    <<0, 8, 3, 5, 10, 6>>,
    <<9, 0, 1, 5, 10, 6>>,
    <<1, 8, 3, 1, 9, 8, 5, 10, 6>>,
    <<1, 6, 5, 2, 6, 1>>,
    <<1, 6, 5, 1, 2, 6, 3, 0, 8>>,
    <<9, 6, 5, 9, 0, 6, 0, 2, 6>>,
    <<5, 9, 8, 5, 8, 2, 5, 2, 6, 3, 2, 8>>,
    <<2, 3, 11, 10, 6, 5>>,
    <<11, 0, 8, 11, 2, 0, 10, 6, 5>>,
    <<0, 1, 9, 2, 3, 11, 5, 10, 6>>,
    <<5, 10, 6, 1, 9, 2, 9, 11, 2, 9, 8, 11>>,
    <<6, 3, 11, 6, 5, 3, 5, 1, 3>>,
    <<0, 8, 11, 0, 11, 5, 0, 5, 1, 5, 11, 6>>,
    <<3, 11, 6, 0, 3, 6, 0, 6, 5, 0, 5, 9>>,
    <<6, 5, 9, 6, 9, 11, 11, 9, 8>>,
    <<5, 10, 6, 4, 7, 8>>,
    <<4, 3, 0, 4, 7, 3, 6, 5, 10>>,
    <<1, 9, 0, 5, 10, 6, 8, 4, 7>>,
    <<10, 6, 5, 1, 9, 7, 1, 7, 3, 7, 9, 4>>,
    <<6, 1, 2, 6, 5, 1, 4, 7, 8>>,
    <<1, 2, 5, 5, 2, 6, 3, 0, 4, 3, 4, 7>>,
    <<8, 4, 7, 9, 0, 5, 0, 6, 5, 0, 2, 6>>,
    <<7, 3, 9, 7, 9, 4, 3, 2, 9, 5, 9, 6, 2, 6, 9>>,
    <<3, 11, 2, 7, 8, 4, 10, 6, 5>>,
    <<5, 10, 6, 4, 7, 2, 4, 2, 0, 2, 7, 11>>,
    <<0, 1, 9, 4, 7, 8, 2, 3, 11, 5, 10, 6>>,
    <<9, 2, 1, 9, 11, 2, 9, 4, 11, 7, 11, 4, 5, 10, 6>>,
    <<8, 4, 7, 3, 11, 5, 3, 5, 1, 5, 11, 6>>,
    <<5, 1, 11, 5, 11, 6, 1, 0, 11, 7, 11, 4, 0, 4, 11>>,
    <<0, 5, 9, 0, 6, 5, 0, 3, 6, 11, 6, 3, 8, 4, 7>>,
    <<6, 5, 9, 6, 9, 11, 4, 7, 9, 7, 11, 9>>,
    <<10, 4, 9, 6, 4, 10>>,
    <<4, 10, 6, 4, 9, 10, 0, 8, 3>>,
    <<10, 0, 1, 10, 6, 0, 6, 4, 0>>,
    <<8, 3, 1, 8, 1, 6, 8, 6, 4, 6, 1, 10>>,
    <<1, 4, 9, 1, 2, 4, 2, 6, 4>>,
    <<3, 0, 8, 1, 2, 9, 2, 4, 9, 2, 6, 4>>,
    <<0, 2, 4, 4, 2, 6>>,
    <<8, 3, 2, 8, 2, 4, 4, 2, 6>>,
    <<10, 4, 9, 10, 6, 4, 11, 2, 3>>,
    <<0, 8, 2, 2, 8, 11, 4, 9, 10, 4, 10, 6>>,
    <<3, 11, 2, 0, 1, 6, 0, 6, 4, 6, 1, 10>>,
    <<6, 4, 1, 6, 1, 10, 4, 8, 1, 2, 1, 11, 8, 11, 1>>,
    <<9, 6, 4, 9, 3, 6, 9, 1, 3, 11, 6, 3>>,
    <<8, 11, 1, 8, 1, 0, 11, 6, 1, 9, 1, 4, 6, 4, 1>>,
    <<3, 11, 6, 3, 6, 0, 0, 6, 4>>,
    <<6, 4, 8, 11, 6, 8>>,
    <<7, 10, 6, 7, 8, 10, 8, 9, 10>>,
    <<0, 7, 3, 0, 10, 7, 0, 9, 10, 6, 7, 10>>,
    <<10, 6, 7, 1, 10, 7, 1, 7, 8, 1, 8, 0>>,
    <<10, 6, 7, 10, 7, 1, 1, 7, 3>>,
    <<1, 2, 6, 1, 6, 8, 1, 8, 9, 8, 6, 7>>,
    <<2, 6, 9, 2, 9, 1, 6, 7, 9, 0, 9, 3, 7, 3, 9>>,
    <<7, 8, 0, 7, 0, 6, 6, 0, 2>>,
    <<7, 3, 2, 6, 7, 2>>,
    <<2, 3, 11, 10, 6, 8, 10, 8, 9, 8, 6, 7>>,
    <<2, 0, 7, 2, 7, 11, 0, 9, 7, 6, 7, 10, 9, 10, 7>>,
    <<1, 8, 0, 1, 7, 8, 1, 10, 7, 6, 7, 10, 2, 3, 11>>,
    <<11, 2, 1, 11, 1, 7, 10, 6, 1, 6, 7, 1>>,
    <<8, 9, 6, 8, 6, 7, 9, 1, 6, 11, 6, 3, 1, 3, 6>>,
    <<0, 9, 1, 11, 6, 7>>,
    <<7, 8, 0, 7, 0, 6, 3, 11, 0, 11, 6, 0>>,
    <<7, 11, 6>>,
    <<7, 6, 11>>,
    <<3, 0, 8, 11, 7, 6>>,
    <<0, 1, 9, 11, 7, 6>>,
    <<8, 1, 9, 8, 3, 1, 11, 7, 6>>,
    <<10, 1, 2, 6, 11, 7>>,
    <<1, 2, 10, 3, 0, 8, 6, 11, 7>>,
    <<2, 9, 0, 2, 10, 9, 6, 11, 7>>,
    <<6, 11, 7, 2, 10, 3, 10, 8, 3, 10, 9, 8>>,
    <<7, 2, 3, 6, 2, 7>>,
    <<7, 0, 8, 7, 6, 0, 6, 2, 0>>,
    <<2, 7, 6, 2, 3, 7, 0, 1, 9>>,
    <<1, 6, 2, 1, 8, 6, 1, 9, 8, 8, 7, 6>>,
    <<10, 7, 6, 10, 1, 7, 1, 3, 7>>,
    <<10, 7, 6, 1, 7, 10, 1, 8, 7, 1, 0, 8>>,
    <<0, 3, 7, 0, 7, 10, 0, 10, 9, 6, 10, 7>>,
    <<7, 6, 10, 7, 10, 8, 8, 10, 9>>,
    <<6, 8, 4, 11, 8, 6>>,
    <<3, 6, 11, 3, 0, 6, 0, 4, 6>>,
    <<8, 6, 11, 8, 4, 6, 9, 0, 1>>,
    <<9, 4, 6, 9, 6, 3, 9, 3, 1, 11, 3, 6>>,
    <<6, 8, 4, 6, 11, 8, 2, 10, 1>>,
    <<1, 2, 10, 3, 0, 11, 0, 6, 11, 0, 4, 6>>,
    <<4, 11, 8, 4, 6, 11, 0, 2, 9, 2, 10, 9>>,
    <<10, 9, 3, 10, 3, 2, 9, 4, 3, 11, 3, 6, 4, 6, 3>>,
    <<8, 2, 3, 8, 4, 2, 4, 6, 2>>,
    <<0, 4, 2, 4, 6, 2>>,
    <<1, 9, 0, 2, 3, 4, 2, 4, 6, 4, 3, 8>>,
    <<1, 9, 4, 1, 4, 2, 2, 4, 6>>,
    <<8, 1, 3, 8, 6, 1, 8, 4, 6, 6, 10, 1>>,
    <<10, 1, 0, 10, 0, 6, 6, 0, 4>>,
    <<4, 6, 3, 4, 3, 8, 6, 10, 3, 0, 3, 9, 10, 9, 3>>,
    <<10, 9, 4, 6, 10, 4>>,
    <<4, 9, 5, 7, 6, 11>>,
    <<0, 8, 3, 4, 9, 5, 11, 7, 6>>,
    <<5, 0, 1, 5, 4, 0, 7, 6, 11>>,
    <<11, 7, 6, 8, 3, 4, 3, 5, 4, 3, 1, 5>>,
    <<9, 5, 4, 10, 1, 2, 7, 6, 11>>,
    <<6, 11, 7, 1, 2, 10, 0, 8, 3, 4, 9, 5>>,
    <<7, 6, 11, 5, 4, 10, 4, 2, 10, 4, 0, 2>>,
    <<3, 4, 8, 3, 5, 4, 3, 2, 5, 10, 5, 2, 11, 7, 6>>,
    <<7, 2, 3, 7, 6, 2, 5, 4, 9>>,
    <<9, 5, 4, 0, 8, 6, 0, 6, 2, 6, 8, 7>>,
    <<3, 6, 2, 3, 7, 6, 1, 5, 0, 5, 4, 0>>,
    <<6, 2, 8, 6, 8, 7, 2, 1, 8, 4, 8, 5, 1, 5, 8>>,
    <<9, 5, 4, 10, 1, 6, 1, 7, 6, 1, 3, 7>>,
    <<1, 6, 10, 1, 7, 6, 1, 0, 7, 8, 7, 0, 9, 5, 4>>,
    <<4, 0, 10, 4, 10, 5, 0, 3, 10, 6, 10, 7, 3, 7, 10>>,
    <<7, 6, 10, 7, 10, 8, 5, 4, 10, 4, 8, 10>>,
    <<6, 9, 5, 6, 11, 9, 11, 8, 9>>,
    <<3, 6, 11, 0, 6, 3, 0, 5, 6, 0, 9, 5>>,
    <<0, 11, 8, 0, 5, 11, 0, 1, 5, 5, 6, 11>>,
    <<6, 11, 3, 6, 3, 5, 5, 3, 1>>,
    <<1, 2, 10, 9, 5, 11, 9, 11, 8, 11, 5, 6>>,
    <<0, 11, 3, 0, 6, 11, 0, 9, 6, 5, 6, 9, 1, 2, 10>>,
    <<11, 8, 5, 11, 5, 6, 8, 0, 5, 10, 5, 2, 0, 2, 5>>,
    <<6, 11, 3, 6, 3, 5, 2, 10, 3, 10, 5, 3>>,
    <<5, 8, 9, 5, 2, 8, 5, 6, 2, 3, 8, 2>>,
    <<9, 5, 6, 9, 6, 0, 0, 6, 2>>,
    <<1, 5, 8, 1, 8, 0, 5, 6, 8, 3, 8, 2, 6, 2, 8>>,
    <<1, 5, 6, 2, 1, 6>>,
    <<1, 3, 6, 1, 6, 10, 3, 8, 6, 5, 6, 9, 8, 9, 6>>,
    <<10, 1, 0, 10, 0, 6, 9, 5, 0, 5, 6, 0>>,
    <<0, 3, 8, 5, 6, 10>>,
    <<10, 5, 6>>,
    <<11, 5, 10, 7, 5, 11>>,
    <<11, 5, 10, 11, 7, 5, 8, 3, 0>>,
    <<5, 11, 7, 5, 10, 11, 1, 9, 0>>,
    <<10, 7, 5, 10, 11, 7, 9, 8, 1, 8, 3, 1>>,
    <<11, 1, 2, 11, 7, 1, 7, 5, 1>>,
    <<0, 8, 3, 1, 2, 7, 1, 7, 5, 7, 2, 11>>,
    <<9, 7, 5, 9, 2, 7, 9, 0, 2, 2, 11, 7>>,
    <<7, 5, 2, 7, 2, 11, 5, 9, 2, 3, 2, 8, 9, 8, 2>>,
    <<2, 5, 10, 2, 3, 5, 3, 7, 5>>,
    <<8, 2, 0, 8, 5, 2, 8, 7, 5, 10, 2, 5>>,
    <<9, 0, 1, 5, 10, 3, 5, 3, 7, 3, 10, 2>>,
    <<9, 8, 2, 9, 2, 1, 8, 7, 2, 10, 2, 5, 7, 5, 2>>,
    <<1, 3, 5, 3, 7, 5>>,
    <<0, 8, 7, 0, 7, 1, 1, 7, 5>>,
    <<9, 0, 3, 9, 3, 5, 5, 3, 7>>,
    <<9, 8, 7, 5, 9, 7>>,
    <<5, 8, 4, 5, 10, 8, 10, 11, 8>>,
    <<5, 0, 4, 5, 11, 0, 5, 10, 11, 11, 3, 0>>,
    <<0, 1, 9, 8, 4, 10, 8, 10, 11, 10, 4, 5>>,
    <<10, 11, 4, 10, 4, 5, 11, 3, 4, 9, 4, 1, 3, 1, 4>>,
    <<2, 5, 1, 2, 8, 5, 2, 11, 8, 4, 5, 8>>,
    <<0, 4, 11, 0, 11, 3, 4, 5, 11, 2, 11, 1, 5, 1, 11>>,
    <<0, 2, 5, 0, 5, 9, 2, 11, 5, 4, 5, 8, 11, 8, 5>>,
    <<9, 4, 5, 2, 11, 3>>,
    <<2, 5, 10, 3, 5, 2, 3, 4, 5, 3, 8, 4>>,
    <<5, 10, 2, 5, 2, 4, 4, 2, 0>>,
    <<3, 10, 2, 3, 5, 10, 3, 8, 5, 4, 5, 8, 0, 1, 9>>,
    <<5, 10, 2, 5, 2, 4, 1, 9, 2, 9, 4, 2>>,
    <<8, 4, 5, 8, 5, 3, 3, 5, 1>>,
    <<0, 4, 5, 1, 0, 5>>,
    <<8, 4, 5, 8, 5, 3, 9, 0, 5, 0, 3, 5>>,
    <<9, 4, 5>>,
    <<4, 11, 7, 4, 9, 11, 9, 10, 11>>,
    <<0, 8, 3, 4, 9, 7, 9, 11, 7, 9, 10, 11>>,
    <<1, 10, 11, 1, 11, 4, 1, 4, 0, 7, 4, 11>>,
    <<3, 1, 4, 3, 4, 8, 1, 10, 4, 7, 4, 11, 10, 11, 4>>,
    <<4, 11, 7, 9, 11, 4, 9, 2, 11, 9, 1, 2>>,
    <<9, 7, 4, 9, 11, 7, 9, 1, 11, 2, 11, 1, 0, 8, 3>>,
    <<11, 7, 4, 11, 4, 2, 2, 4, 0>>,
    <<11, 7, 4, 11, 4, 2, 8, 3, 4, 3, 2, 4>>,
    <<2, 9, 10, 2, 7, 9, 2, 3, 7, 7, 4, 9>>,
    <<9, 10, 7, 9, 7, 4, 10, 2, 7, 8, 7, 0, 2, 0, 7>>,
    <<3, 7, 10, 3, 10, 2, 7, 4, 10, 1, 10, 0, 4, 0, 10>>,
    <<1, 10, 2, 8, 7, 4>>,
    <<4, 9, 1, 4, 1, 7, 7, 1, 3>>,
    <<4, 9, 1, 4, 1, 7, 0, 8, 1, 8, 7, 1>>,
    <<4, 0, 3, 7, 4, 3>>,
    <<4, 8, 7>>,
    <<9, 10, 8, 10, 11, 8>>,
    <<3, 0, 9, 3, 9, 11, 11, 9, 10>>,
    <<0, 1, 10, 0, 10, 8, 8, 10, 11>>,
    <<3, 1, 10, 11, 3, 10>>,
    <<1, 2, 11, 1, 11, 9, 9, 11, 8>>,
    <<3, 0, 9, 3, 9, 11, 1, 2, 9, 2, 11, 9>>,
    <<0, 2, 11, 8, 0, 11>>,
    <<3, 2, 11>>,
    <<2, 3, 8, 2, 8, 10, 10, 8, 9>>,
    <<9, 10, 2, 0, 9, 2>>,
    <<2, 3, 8, 2, 8, 10, 0, 1, 8, 1, 10, 8>>,
    <<1, 10, 2>>,
    <<1, 3, 8, 9, 1, 8>>,
    <<0, 9, 1>>,
    <<0, 3, 8>>,
    <<>>
>>

\* Python's list indexing: a negative index counts from the end, anything
\* outside -256..255 raises IndexError.
IndexError == <<-1>>

\* a table row together with the -1 that ends the rows of the classic table
LookupTerminated(c) == lookup_table[c + 1] \o <<-1>>

\* rows counted from one: the row after the one asked for
LookupFromOne(c) ==
    IF c \in 0..(Len(lookup_table) - 2) THEN lookup_table[c + 2] ELSE IndexError

\* row 1 with an edge index used twice in its triangle
LookupRow1Repeated(c) ==
    IF c = 1 THEN <<0, 8, 8>>
    ELSE IF c \in 0..(Len(lookup_table) - 1) THEN lookup_table[c + 1]
    ELSE IndexError

\* row 254 left empty
LookupRow254Empty(c) ==
    IF c = 254 THEN <<>>
    ELSE IF c \in 0..(Len(lookup_table) - 1) THEN lookup_table[c + 1]
    ELSE IndexError

\* the second triangle of row 15 wound the other way
LookupRow15Flipped(c) ==
    IF c = 15 THEN <<9, 8, 10, 10, 11, 8>>
    ELSE IF c \in 0..(Len(lookup_table) - 1) THEN lookup_table[c + 1]
    ELSE IndexError

_lookup_configuration(c) ==
    IF c \in 0..(Len(lookup_table) - 1) THEN lookup_table[c + 1]
    ELSE IF c \in (-Len(lookup_table))..(-1) THEN lookup_table[Len(lookup_table) + c + 1]
    ELSE IndexError

(***************************************************************************)
(* _get_vertex_positions.  edge_midpoints holds the doubled table, so that *)
(* 0.5 is 1 and 1.0 is 2; stepsize * midpoint is (stepsize * entry) / 2.   *)
(***************************************************************************)
\* the table with the midpoints of edges 0 and 1 exchanged
EdgeMidpointsSwapped == <<
    <<2, 0, 1>>,
    <<1, 0, 0>>,
    <<1, 0, 2>>,
    <<0, 0, 1>>,
    <<1, 2, 0>>,
    <<2, 2, 1>>,
    <<1, 2, 2>>,
    <<0, 2, 1>>,
    <<0, 1, 0>>,
    <<2, 1, 0>>,
    <<2, 1, 2>>,
    <<0, 1, 2>> >>

edge_midpoints == <<
    <<1, 0, 0>>,
    <<2, 0, 1>>,
    <<1, 0, 2>>,
    <<0, 0, 1>>,
    <<1, 2, 0>>,
    <<2, 2, 1>>,
    <<1, 2, 2>>,
    <<0, 2, 1>>,
    <<0, 1, 0>>,
    <<2, 1, 0>>,
    <<2, 1, 2>>,
    <<0, 1, 2>> >>

\* the table entry taken as it stands, without halving the doubled value
ScaledWhole(stepsize, e) == stepsize * e

\* stepsize * edge_x for a doubled table entry
Scaled(stepsize, e) == (stepsize * e) \div 2

\* the midpoints of a cube of stepsize 0.5, whatever the stepsize is
EdgeVertexHalfStep(index, coordinate, stepsize) ==
    LET edge == edge_midpoints[index + 1]
    IN  << coordinate[1] + Scaled(2, edge[1]),
           coordinate[2] + Scaled(2, edge[2]),
           coordinate[3] + Scaled(2, edge[3]) >>

\* the three appends made for one edge index
EdgeVertex(index, coordinate, stepsize) ==
    LET edge == edge_midpoints[index + 1]
    IN  << coordinate[1] + Scaled(stepsize, edge[1]),
           coordinate[2] + Scaled(stepsize, edge[2]),
           coordinate[3] + Scaled(stepsize, edge[3]) >>

\* the vertices in the reverse of the order of the edge indices
RECURSIVE PositionsReversed(_, _, _)
PositionsReversed(configuration, coordinate, stepsize) ==
    IF configuration = <<>> THEN <<>>
    ELSE PositionsReversed(Tail(configuration), coordinate, stepsize)
         \o EdgeVertex(Head(configuration), coordinate, stepsize)

RECURSIVE _get_vertex_positions(_, _, _)
_get_vertex_positions(configuration, coordinate, stepsize) ==
    IF configuration = <<>> THEN <<>>
    ELSE EdgeVertex(Head(configuration), coordinate, stepsize)
         \o _get_vertex_positions(Tail(configuration), coordinate, stepsize)

(***************************************************************************)
(* Scalar fields.  A field is a record (kind, p); its value is counted in  *)
(* sixteenths.  hyperboloid is the script's own x^2 - y^2 - z^2 - z; the   *)
(* others are callers' fields: a plane y - p, a sphere of radius p, a      *)
(* constant p, and a field that is negative exactly on the octants named   *)
(* by the bits of p.                                                       *)
(***************************************************************************)
hyperboloid(x, y, z) == x * x - y * y - z * z - 4 * z

Octant(x, y, z) ==
    (IF x > 0 THEN 1 ELSE 0) + (IF y > 0 THEN 2 ELSE 0) + (IF z > 0 THEN 4 ELSE 0)

RECURSIVE Pow2(_)
Pow2(n) == IF n = 0 THEN 1 ELSE 2 * Pow2(n - 1)

BitSet(n, b) == (n \div Pow2(b)) % 2 = 1

(***************************************************************************)
(* wavy: y - sin(x) * cos(z).  WavyTable[x + 17][z + 17] is                *)
(* ceil(16 * sin(x / 4) * cos(z / 4)) for x, z in -16..16 quarters, so the  *)
(* value below is the floor of the field in sixteenths: it compares with an *)
(* isovalue that is a whole number of sixteenths as the field itself does.  *)
(***************************************************************************)
WavyTable ==
    <<<<-7, -9, -11, -12, -11, -11, -9, -7, -5, -2, 1, 4, 7, 9, 11, 12, 13, 12, 11, 9, 7, 4, 1, -2, -5, -7, -9, -11, -11, -12, -11, -9, -7>>,
      <<-5, -7, -8, -9, -9, -8, -7, -5, -3, -1, 1, 3, 5, 7, 9, 9, 10, 9, 9, 7, 5, 3, 1, -1, -3, -5, -7, -8, -9, -9, -8, -7, -5>>,
      <<-3, -4, -5, -5, -5, -5, -4, -3, -2, -1, 1, 2, 4, 5, 5, 6, 6, 6, 5, 5, 4, 2, 1, -1, -2, -3, -4, -5, -5, -5, -5, -4, -3>>,
      <<-1, -1, -1, -1, -1, -1, -1, -1, 0, 0, 1, 1, 1, 2, 2, 2, 2, 2, 2, 2, 1, 1, 1, 0, 0, -1, -1, -1, -1, -1, -1, -1, -1>>,
      <<2, 2, 3, 3, 3, 3, 2, 2, 1, 1, 0, 0, -1, -1, -1, -2, -2, -2, -1, -1, -1, 0, 0, 1, 1, 2, 2, 3, 3, 3, 3, 2, 2>>,
      <<4, 6, 6, 7, 7, 6, 5, 4, 3, 2, 0, -1, -3, -4, -5, -5, -6, -5, -5, -4, -3, -1, 0, 2, 3, 4, 5, 6, 7, 7, 6, 6, 4>>,
      <<7, 8, 9, 10, 10, 9, 8, 7, 4, 2, 0, -3, -5, -7, -8, -9, -9, -9, -8, -7, -5, -3, 0, 2, 4, 7, 8, 9, 10, 10, 9, 8, 7>>,
      <<9, 11, 12, 13, 13, 12, 10, 8, 6, 3, 0, -3, -6, -9, -10, -12, -12, -12, -10, -9, -6, -3, 0, 3, 6, 8, 10, 12, 13, 13, 12, 11, 9>>,
      <<10, 12, 14, 15, 15, 14, 12, 10, 7, 3, -1, -4, -7, -10, -12, -14, -14, -14, -12, -10, -7, -4, -1, 3, 7, 10, 12, 14, 15, 15, 14, 12, 10>>,
      <<11, 13, 15, 16, 16, 15, 13, 10, 7, 3, -1, -4, -8, -11, -13, -15, -15, -15, -13, -11, -8, -4, -1, 3, 7, 10, 13, 15, 16, 16, 15, 13, 11>>,
      <<11, 14, 15, 16, 16, 15, 13, 11, 7, 3, -1, -5, -8, -11, -14, -15, -15, -15, -14, -11, -8, -5, -1, 3, 7, 11, 13, 15, 16, 16, 15, 14, 11>>,
      <<10, 13, 15, 16, 16, 15, 13, 10, 7, 3, -1, -4, -8, -11, -13, -14, -15, -14, -13, -11, -8, -4, -1, 3, 7, 10, 13, 15, 16, 16, 15, 13, 10>>,
      <<9, 12, 13, 14, 14, 13, 11, 9, 6, 3, 0, -4, -7, -9, -11, -13, -13, -13, -11, -9, -7, -4, 0, 3, 6, 9, 11, 13, 14, 14, 13, 12, 9>>,
      <<8, 9, 11, 11, 11, 11, 9, 7, 5, 2, 0, -3, -5, -7, -9, -10, -10, -10, -9, -7, -5, -3, 0, 2, 5, 7, 9, 11, 11, 11, 11, 9, 8>>,
      <<6, 7, 8, 8, 8, 8, 7, 5, 4, 2, 0, -2, -4, -5, -6, -7, -7, -7, -6, -5, -4, -2, 0, 2, 4, 5, 7, 8, 8, 8, 8, 7, 6>>,
      <<3, 4, 4, 4, 4, 4, 4, 3, 2, 1, 0, -1, -2, -2, -3, -3, -3, -3, -3, -2, -2, -1, 0, 1, 2, 3, 4, 4, 4, 4, 4, 4, 3>>,
      <<0, 0, 0, 0, 0, 0, 0, 0, 0, 0, 0, 0, 0, 0, 0, 0, 0, 0, 0, 0, 0, 0, 0, 0, 0, 0, 0, 0, 0, 0, 0, 0, 0>>,
      <<-2, -3, -3, -3, -3, -3, -3, -2, -1, 0, 1, 2, 3, 3, 4, 4, 4, 4, 4, 3, 3, 2, 1, 0, -1, -2, -3, -3, -3, -3, -3, -3, -2>>,
      <<-5, -6, -7, -7, -7, -7, -6, -4, -3, -1, 1, 3, 5, 6, 7, 8, 8, 8, 7, 6, 5, 3, 1, -1, -3, -4, -6, -7, -7, -7, -7, -6, -5>>,
      <<-7, -8, -10, -10, -10, -10, -8, -6, -4, -1, 1, 4, 6, 8, 10, 11, 11, 11, 10, 8, 6, 4, 1, -1, -4, -6, -8, -10, -10, -10, -10, -8, -7>>,
      <<-8, -11, -12, -13, -13, -12, -10, -8, -5, -2, 1, 5, 8, 10, 12, 14, 14, 14, 12, 10, 8, 5, 1, -2, -5, -8, -10, -12, -13, -13, -12, -11, -8>>,
      <<-9, -12, -14, -15, -15, -14, -12, -9, -6, -2, 2, 5, 9, 12, 14, 15, 16, 15, 14, 12, 9, 5, 2, -2, -6, -9, -12, -14, -15, -15, -14, -12, -9>>,
      <<-10, -13, -14, -15, -15, -14, -12, -10, -6, -2, 2, 6, 9, 12, 15, 16, 16, 16, 15, 12, 9, 6, 2, -2, -6, -10, -12, -14, -15, -15, -14, -13, -10>>,
      <<-10, -12, -14, -15, -15, -14, -12, -9, -6, -2, 2, 5, 9, 12, 14, 16, 16, 16, 14, 12, 9, 5, 2, -2, -6, -9, -12, -14, -15, -15, -14, -12, -10>>,
      <<-9, -11, -13, -14, -14, -13, -11, -9, -6, -2, 2, 5, 8, 11, 13, 15, 15, 15, 13, 11, 8, 5, 2, -2, -6, -9, -11, -13, -14, -14, -13, -11, -9>>,
      <<-8, -10, -11, -12, -12, -11, -9, -7, -5, -2, 1, 4, 7, 10, 11, 13, 13, 13, 11, 10, 7, 4, 1, -2, -5, -7, -9, -11, -12, -12, -11, -10, -8>>,
      <<-6, -7, -8, -9, -9, -8, -7, -6, -3, -1, 1, 4, 6, 8, 9, 10, 10, 10, 9, 8, 6, 4, 1, -1, -3, -6, -7, -8, -9, -9, -8, -7, -6>>,
      <<-3, -5, -5, -6, -6, -5, -4, -3, -2, -1, 1, 2, 4, 5, 6, 6, 7, 6, 6, 5, 4, 2, 1, -1, -2, -3, -4, -5, -6, -6, -5, -5, -3>>,
      <<-1, -1, -2, -2, -2, -2, -1, -1, 0, 0, 1, 1, 2, 2, 2, 3, 3, 3, 2, 2, 2, 1, 1, 0, 0, -1, -1, -2, -2, -2, -2, -1, -1>>,
      <<2, 2, 2, 2, 2, 2, 2, 2, 1, 1, 0, 0, 0, -1, -1, -1, -1, -1, -1, -1, 0, 0, 0, 1, 1, 2, 2, 2, 2, 2, 2, 2, 2>>,
      <<4, 5, 6, 6, 6, 6, 5, 4, 3, 2, 0, -1, -3, -4, -4, -5, -5, -5, -4, -4, -3, -1, 0, 2, 3, 4, 5, 6, 6, 6, 6, 5, 4>>,
      <<6, 8, 9, 10, 10, 9, 8, 6, 4, 2, 0, -2, -4, -6, -8, -8, -9, -8, -8, -6, -4, -2, 0, 2, 4, 6, 8, 9, 10, 10, 9, 8, 6>>,
      <<8, 10, 12, 13, 12, 12, 10, 8, 6, 3, 0, -3, -6, -8, -10, -11, -12, -11, -10, -8, -6, -3, 0, 3, 6, 8, 10, 12, 12, 13, 12, 10, 8>>>>

wavy(x, y, z) == 4 * y - WavyTable[x + 17][z + 17]

scalar_field(f, x, y, z) ==
    CASE f.kind = "hyperboloid" -> hyperboloid(x, y, z)
      [] f.kind = "wavy"        -> wavy(x, y, z)
      [] f.kind = "plane"       -> 4 * (y - f.p)
      [] f.kind = "sphere"      -> x * x + y * y + z * z - f.p * f.p
      [] f.kind = "constant"    -> f.p
      [] f.kind = "octants"     -> IF BitSet(f.p, Octant(x, y, z)) THEN -1 ELSE 1

(***************************************************************************)
(* np.arange(start, stop, step): ceil((stop - start) / step) values        *)
(* start, start + step, ..., none when that is not positive.  A step of 0  *)
(* makes the division fail (ArangeFails) before any value exists.          *)
(***************************************************************************)
ArangeFails(step) == step = 0

ArangeLen(start, stop, step) ==
    IF step > 0
    THEN IF stop <= start THEN 0 ELSE (stop - start + step - 1) \div step
    ELSE IF stop >= start THEN 0 ELSE (start - stop - step - 1) \div (-step)

\* the values up to and including stop
ArangeThroughStop(start, stop, step) ==
    [i \in 1..ArangeLen(start, stop + step, step) |-> start + (i - 1) * step]

Arange(start, stop, step) ==
    [i \in 1..ArangeLen(start, stop, step) |-> start + (i - 1) * step]

(***************************************************************************)
(* marching_cubes: the bit of each corner, and the bitmask of one cube.    *)
(***************************************************************************)
FRONT_BOTTOM_LEFT == 8
FRONT_BOTTOM_RIGHT == 4
FRONT_TOP_LEFT == 128
FRONT_TOP_RIGHT == 64
BACK_BOTTOM_LEFT == 1
BACK_BOTTOM_RIGHT == 2
BACK_TOP_LEFT == 16
BACK_TOP_RIGHT == 32

\* Python's a | b on non-negative integers
RECURSIVE BitOr(_, _)
BitOr(a, b) ==
    IF a = 0 THEN b
    ELSE IF b = 0 THEN a
    ELSE (IF a % 2 = 1 \/ b % 2 = 1 THEN 1 ELSE 0) + 2 * BitOr(a \div 2, b \div 2)

\* the comparison with > in place of <
TestAbove(c, f, isovalue, x, y, z, bit) ==
    IF scalar_field(f, x, y, z) > isovalue THEN BitOr(c, bit) ELSE c

\* the comparison with <= in place of <
TestOrEqual(c, f, isovalue, x, y, z, bit) ==
    IF scalar_field(f, x, y, z) <= isovalue THEN BitOr(c, bit) ELSE c

\* if (scalar_field(...) < isovalue): case |= bit
Test(c, f, isovalue, x, y, z, bit) ==
    IF scalar_field(f, x, y, z) < isovalue THEN BitOr(c, bit) ELSE c

CubeCase(f, isovalue, x, y, z, s) ==
    LET c0 == 0
        c1 == Test(c0, f, isovalue, x, y, z, BACK_BOTTOM_LEFT)
        c2 == Test(c1, f, isovalue, x + s, y, z, BACK_BOTTOM_RIGHT)
        c3 == Test(c2, f, isovalue, x, y + s, z, BACK_TOP_LEFT)
        c4 == Test(c3, f, isovalue, x + s, y + s, z, BACK_TOP_RIGHT)
        c5 == Test(c4, f, isovalue, x, y, z + s, FRONT_BOTTOM_LEFT)
        c6 == Test(c5, f, isovalue, x + s, y, z + s, FRONT_BOTTOM_RIGHT)
        c7 == Test(c6, f, isovalue, x, y + s, z + s, FRONT_TOP_LEFT)
        c8 == Test(c7, f, isovalue, x + s, y + s, z + s, FRONT_TOP_RIGHT)
    IN  c8

\* the values the three loops run over, and the cube the loops stand at
Axis == Arange(args.volume_min, args.volume_max, args.stepsize)

Origin(jy, jx, jz) == <<Axis[jx], Axis[jy], Axis[jz]>>

\* an accumulator that outlives the call
StaleMesh(old) == old

\* mesh_vertices = [] at the head of marching_cubes
FreshMesh(old) == <<>>

\* the cube's vertices put in front of the mesh instead of behind it
PrependAll(mesh, new_vertices) == new_vertices \o mesh

\* for vertex in cube_vertices: mesh_vertices.append(vertex)
AppendAll(mesh, new_vertices) == mesh \o new_vertices

\* the loops nested the other way: x innermost, then z, then y
LoopNextXInner(jy, jx, jz, n) ==
    IF jx < n THEN <<jy, jx + 1, jz>>
    ELSE IF jz < n THEN <<jy, 1, jz + 1>>
    ELSE <<jy + 1, 1, 1>>

\* the loops' next position: z innermost, then x, then y
LoopNext(jy, jx, jz, n) ==
    IF jz < n THEN <<jy, jx, jz + 1>>
    ELSE IF jx < n THEN <<jy, jx + 1, 1>>
    ELSE <<jy + 1, 1, 1>>

(***************************************************************************)
(* compute_normals.  A component of a normalized vector is the real        *)
(* sign * sqrt(p / q) with p / q in lowest terms, written <<sign * p, q>>; *)
(* <<0, 1>> is 0 and <<0, 0>> is NaN (glm.normalize of the zero vector).   *)
(***************************************************************************)
Abs(n) == IF n < 0 THEN -n ELSE n

RECURSIVE Gcd(_, _)
Gcd(a, b) == IF b = 0 THEN a ELSE Gcd(b, a % b)

Sub(a, b) == <<a[1] - b[1], a[2] - b[2], a[3] - b[3]>>

\* the cross product with its operands exchanged
CrossSwapped(a, b) ==
    << b[2] * a[3] - b[3] * a[2],
       b[3] * a[1] - b[1] * a[3],
       b[1] * a[2] - b[2] * a[1] >>

Cross(a, b) ==
    << a[2] * b[3] - a[3] * b[2],
       a[3] * b[1] - a[1] * b[3],
       a[1] * b[2] - a[2] * b[1] >>

Dot(a, b) == a[1] * b[1] + a[2] * b[2] + a[3] * b[3]

NaN == <<0, 0>>

\* c / sqrt(len2) as a real
Component(c, len2) ==
    IF len2 = 0 THEN NaN
    ELSE LET g == Gcd(c * c, len2)
         IN  <<(IF c < 0 THEN -1 ELSE 1) * ((c * c) \div g), len2 \div g>>

\* glm.normalize(v) = v * inversesqrt(dot(v, v))
Normalize(v) ==
    << Component(v[1], Dot(v, v)),
       Component(v[2], Dot(v, v)),
       Component(v[3], Dot(v, v)) >>

\* the normal of the triangle whose first coordinate is vs[index + 1]
TriangleNormal(vs, index) ==
    LET vertexA == <<vs[index + 1], vs[index + 2], vs[index + 3]>>
        vertexB == <<vs[index + 4], vs[index + 5], vs[index + 6]>>
        vertexC == <<vs[index + 7], vs[index + 8], vs[index + 9]>>
        edgeA   == Sub(vertexB, vertexA)
        edgeB   == Sub(vertexC, vertexA)
    IN  Normalize(Cross(edgeA, edgeB))

\* for i in range(3): normals.append(normal.x), (normal.y), (normal.z)
Thrice(normal) == normal \o normal \o normal

\* one normal for each triangle instead of one for each vertex
NormalsPerTriangle(vs) ==
    [i \in 1..(Len(vs) \div 3) |->
        TriangleNormal(vs, 9 * ((i - 1) \div 3))[((i - 1) % 3) + 1]]

\* one pass per index in np.arange(0, len(vertices), 9); entry i of the
\* result is appended by the pass of the triangle that holds coordinate i
NormalsFrom(vs) ==
    [i \in 1..Len(vs) |->
        Thrice(TriangleNormal(vs, 9 * ((i - 1) \div 9)))[((i - 1) % 9) + 1]]

\* a last triangle with fewer than 9 coordinates raises IndexError
compute_normals(vs) ==
    IF Len(vs) % 9 # 0 THEN IndexError ELSE NormalsFrom(vs)

(***************************************************************************)
(* Text.  A line is a sequence of tokens (what split(" ") yields); a token *)
(* is a sequence of symbols: one keyword, or the characters of a number.   *)
(***************************************************************************)
Word(s) == <<s>>

DigitChars == <<"0", "1", "2", "3", "4", "5", "6", "7", "8", "9">>

RECURSIVE FormatInt(_)
FormatInt(n) ==
    IF n < 0 THEN <<"-">> \o FormatInt(-n)
    ELSE IF n < 10 THEN <<DigitChars[n + 1]>>
    ELSE FormatInt(n \div 10) \o <<DigitChars[(n % 10) + 1]>>

\* "{}".format of a float that is v quarters: 3 is 0.75, -4 is -1.0
Quarters == << <<"0">>, <<"2", "5">>, <<"5">>, <<"7", "5">> >>

FormatFloat(v) ==
    (IF v < 0 THEN <<"-">> ELSE <<>>)
    \o FormatInt(Abs(v) \div 4) \o <<".">> \o Quarters[(Abs(v) % 4) + 1]

\* "{}".format of a normal's component: the numeral of sign * sqrt(p / q)
FormatRoot(r) == FormatInt(r[1]) \o <<"/">> \o FormatInt(r[2])

IsDigits(tok) ==
    /\ tok # <<>>
    /\ \A i \in 1..Len(tok) : \E d \in 1..10 : DigitChars[d] = tok[i]

DigitValue(ch) == (CHOOSE d \in 1..10 : DigitChars[d] = ch) - 1

RECURSIVE ParseDigits(_)
ParseDigits(tok) ==
    IF Len(tok) = 1 THEN DigitValue(tok[1])
    ELSE 10 * ParseDigits(SubSeq(tok, 1, Len(tok) - 1)) + DigitValue(tok[Len(tok)])

Unsigned(tok) == IF tok # <<>> /\ tok[1] = "-" THEN Tail(tok) ELSE tok

Signed(tok, n) == IF tok # <<>> /\ tok[1] = "-" THEN -n ELSE n

\* int(token): the token is an optional sign and digits
IsInt(tok) == IsDigits(Unsigned(tok))

ParseInt(tok) == Signed(tok, ParseDigits(Unsigned(tok)))

Places(tok, ch) == {i \in 1..Len(tok) : tok[i] = ch}

RECURSIVE Pow10(_)
Pow10(n) == IF n = 0 THEN 1 ELSE 10 * Pow10(n - 1)

\* float(token), for the two numerals above
IsFloat(tok) ==
    LET body == Unsigned(tok)
    IN  \/ /\ Cardinality(Places(body, ".")) = 1
           /\ \E i \in Places(body, ".") :
                  /\ IsDigits(SubSeq(body, 1, i - 1))
                  /\ IsDigits(SubSeq(body, i + 1, Len(body)))
        \/ /\ Cardinality(Places(body, "/")) = 1
           /\ \E i \in Places(body, "/") :
                  /\ IsDigits(SubSeq(body, 1, i - 1))
                  /\ IsDigits(SubSeq(body, i + 1, Len(body)))

ParseFloat(tok) ==
    LET body == Unsigned(tok)
    IN  IF Places(body, "/") # {}
        THEN LET i == CHOOSE j \in Places(body, "/") : TRUE
             IN  << Signed(tok, ParseDigits(SubSeq(body, 1, i - 1))),
                    ParseDigits(SubSeq(body, i + 1, Len(body))) >>
        ELSE LET i    == CHOOSE j \in Places(body, ".") : TRUE
                 frac == SubSeq(body, i + 1, Len(body))
             IN  Signed(tok, 4 * ParseDigits(SubSeq(body, 1, i - 1))
                             + (4 * ParseDigits(frac)) \div Pow10(Len(frac)))

(***************************************************************************)
(* writePLY.                                                               *)
(***************************************************************************)
Header(num_vertices, num_faces, comment) == <<
    <<Word("ply")>>,
    <<Word("format"), Word("ascii"), Word("1.0")>>,
    <<Word("comment"), Word(comment)>>,
    <<Word("element"), Word("vertex"), FormatInt(num_vertices)>>,
    <<Word("property"), Word("float"), Word("x")>>,
    <<Word("property"), Word("float"), Word("y")>>,
    <<Word("property"), Word("float"), Word("z")>>,
    <<Word("property"), Word("float"), Word("nx")>>,
    <<Word("property"), Word("float"), Word("ny")>>,
    <<Word("property"), Word("float"), Word("nz")>>,
    <<Word("element"), Word("face"), FormatInt(num_faces)>>,
    <<Word("property"), Word("list"), Word("uchar"), Word("uint"), Word("vertex_indices")>>,
    <<Word("end_header")>> >>

\* one line per i in np.arange(0, len(vertices), 3)
VertexLine(vs, ns, i) ==
    << FormatFloat(vs[i + 1]), FormatFloat(vs[i + 2]), FormatFloat(vs[i + 3]),
       FormatRoot(ns[i + 1]), FormatRoot(ns[i + 2]), FormatRoot(ns[i + 3]) >>

\* the passes of the vertex loop that end without an IndexError: pass k
\* reads vertices and normals up to position 3 * k
Min(a, b) == IF a < b THEN a ELSE b

Written(vs, ns) == Min(Len(vs) \div 3, Len(ns) \div 3)

VertexLines(vs, ns) ==
    [k \in 1..Written(vs, ns) |-> VertexLine(vs, ns, 3 * (k - 1))]

\* one line per i in np.arange(0, num_vertices, 3)
FaceLine(i) == <<FormatInt(3), FormatInt(i), FormatInt(i + 1), FormatInt(i + 2)>>

\* faces that start at every vertex index 0, 1, 2, ... in place of 0, 3, 6, ...
FaceLinesByOne(num_vertices) ==
    [k \in 1..ArangeLen(0, num_vertices, 3) |-> FaceLine(k - 1)]

FaceLines(num_vertices) ==
    [k \in 1..ArangeLen(0, num_vertices, 3) |-> FaceLine(3 * (k - 1))]

\* (ok, lines): the lines in the file when writePLY returns (ok) or raises
writePLY(vs, ns, comment) ==
    LET num_vertices == Len(vs) \div 3
        num_faces    == num_vertices \div 3
    IN  IF Written(vs, ns) < ArangeLen(0, Len(vs), 3)
        THEN [ok    |-> FALSE,
              lines |-> Header(num_vertices, num_faces, comment) \o VertexLines(vs, ns)]
        ELSE [ok    |-> TRUE,
              lines |-> Header(num_vertices, num_faces, comment)
                        \o VertexLines(vs, ns) \o FaceLines(num_vertices)]

(***************************************************************************)
(* readPLY (render.py).  The result is (ok, vertices, normals, faces); ok  *)
(* is FALSE when the function raises.                                      *)
(***************************************************************************)
Raised == [ok |-> FALSE, vertices |-> <<>>, normals |-> <<>>, faces |-> <<>>]

\* file.readline().strip().split(): no tokens at the end of the file
readline(f, pos) == IF pos <= Len(f) THEN f[pos] ELSE <<>>

\* file.readline().strip().split(" "): one empty token at the end of the file
readline_split(f, pos) == IF pos <= Len(f) THEN f[pos] ELSE << <<>> >>

\* the keys of vertex_data
vertex_data == <<"x", "y", "z", "nx", "ny", "nz", "r", "g", "b", "u", "v">>

\* while (line_num < len(vertex_data)): read the property lines up to the
\* next "element" line; yields the line read last and the attribute names
RECURSIVE ReadAttributes(_, _, _, _, _)
ReadAttributes(f, pos, line, line_num, attribute_indices) ==
    IF line_num < Len(vertex_data)
    THEN LET next == readline(f, pos)
         IN  IF next = <<>> THEN [ok |-> FALSE]
             ELSE IF next[1] = Word("element")
             THEN [ok |-> TRUE, pos |-> pos + 1, line |-> next,
                   attribute_indices |-> attribute_indices]
             ELSE IF Len(next) < 3 THEN [ok |-> FALSE]
             ELSE ReadAttributes(f, pos + 1, next, line_num + 1,
                                 Append(attribute_indices, next[3]))
    ELSE [ok |-> TRUE, pos |-> pos, line |-> line,
          attribute_indices |-> attribute_indices]

\* np.empty leaves an attribute that no column fills unset
Unset == <<0, -1>>

\* vertex_data[name][index] after the line of vertex index was stored
Stored(attribute_indices, vertex, name) ==
    LET cols == {i \in 1..Len(vertex) : attribute_indices[i] = Word(name)}
    IN  IF cols = {} THEN Unset
        ELSE ParseFloat(vertex[CHOOSE i \in cols : \A j \in cols : j <= i])

\* a vertex line can be stored: every column has an attribute and is a float
Storable(attribute_indices, vertex) ==
    /\ Len(vertex) <= Len(attribute_indices)
    /\ \A i \in 1..Len(vertex) :
           /\ \E k \in 1..Len(vertex_data) : attribute_indices[i] = Word(vertex_data[k])
           /\ IsFloat(vertex[i])

\* the appends of three values per vertex, in the order of the vertices
Flatten(rows) ==
    [i \in 1..(3 * Len(rows)) |-> rows[((i - 1) \div 3) + 1][((i - 1) % 3) + 1]]

\* while (len(faces) < num_faces): append the three indices of the next line
RECURSIVE ReadFaces(_, _, _, _)
ReadFaces(f, pos, faces, num_faces) ==
    IF Len(faces) < num_faces
    THEN LET indices == readline_split(f, pos)
         IN  IF Len(indices) < 4 THEN IndexError
             ELSE ReadFaces(f, pos + 1,
                            faces \o <<indices[2], indices[3], indices[4]>>, num_faces)
    ELSE faces

readPLY(f) ==
    LET count == readline_split(f, 4)
    IN  IF Len(count) < 3 \/ ~IsInt(count[3]) THEN Raised
        ELSE
        LET num_vertices == ParseInt(count[3])
            attrs        == ReadAttributes(f, 5, count, 0, <<>>)
        IN  IF ~attrs.ok THEN Raised
            ELSE IF Len(attrs.line) < 3 \/ ~IsInt(attrs.line[3]) THEN Raised
            ELSE
            LET num_faces == ParseInt(attrs.line[3])
                first     == attrs.pos + 2
                rows      == [i \in 1..num_vertices |-> readline_split(f, first + i - 1)]
                indices   == ReadFaces(f, first + num_vertices, <<>>, num_faces)
            IN  IF first > Len(f) + 1 THEN Raised
                ELSE IF \E i \in 1..num_vertices :
                            ~Storable(attrs.attribute_indices, rows[i]) THEN Raised
                ELSE IF indices = IndexError THEN Raised
                ELSE IF \E i \in 1..Len(indices) : ~IsInt(indices[i]) THEN Raised
                ELSE [ok       |-> TRUE,
                      vertices |-> Flatten([i \in 1..num_vertices |->
                                       << Stored(attrs.attribute_indices, rows[i], "x"),
                                          Stored(attrs.attribute_indices, rows[i], "y"),
                                          Stored(attrs.attribute_indices, rows[i], "z") >>]),
                      normals  |-> Flatten([i \in 1..num_vertices |->
                                       << Stored(attrs.attribute_indices, rows[i], "nx"),
                                          Stored(attrs.attribute_indices, rows[i], "ny"),
                                          Stored(attrs.attribute_indices, rows[i], "nz") >>]),
                      faces    |-> [i \in 1..Len(indices) |-> ParseInt(indices[i])]]

(***************************************************************************)
(* The inputs.                                                             *)
(***************************************************************************)
Fields ==
    {[kind |-> "hyperboloid", p |-> 0]}
    \cup {[kind |-> "plane", p |-> c] : c \in {0, 1}}
    \cup {[kind |-> "sphere", p |-> r] : r \in {2, 3}}
    \cup {[kind |-> "constant", p |-> k] : k \in {-1, 17}}

\* a field with an isovalue (in sixteenths): every field at 0, and the
\* script's own field at 1.0 as well
Scenes ==
    {<<f, 0>> : f \in Fields} \cup {<<[kind |-> "hyperboloid", p |-> 0], 16>>}

Volumes == {4 * k : k \in (-MaxWorld)..MaxWorld}

Stepsizes == {2 * k : k \in 1..MaxStep}

\* one cube, with every pattern of corners below the isovalue
OneCube ==
    {[scalar_field |-> [kind |-> "octants", p |-> m], isovalue |-> 0,
      volume_min |-> 0, volume_max |-> 4, stepsize |-> 4] : m \in 0..255}

Inputs ==
    {[scalar_field |-> sc[1], isovalue |-> sc[2], volume_min |-> a,
      volume_max |-> b, stepsize |-> s] :
        sc \in Scenes, a \in Volumes, b \in Volumes, s \in Stepsizes}
    \cup OneCube

NoFile == <<>>

\* an exception: its type and the option names its message lists
Error(type) == [type |-> type, names |-> {}]

NoError == Error("none")

\* what np.arange raises for a step of 0: the division by zero of its length
\* computation, or the size error of builds that divide in floating point
ArangeErrors == {"ZeroDivisionError", "ValueError"}

(***************************************************************************)
(* Camera (render.py).  Angles are counted in thousandths of a radian.  An *)
(* angle is a pair <<a, b>> that stands for a / 1000 + b * pi, with b 0 or *)
(* 1: pi is not a whole number of thousandths, and the clamp of rotatePhi  *)
(* produces pi - epsilon.  NotANumber is the float nan.  The radius is     *)
(* counted in units of 0.0001.                                             *)
(***************************************************************************)
NotANumber == <<0, -1>>

\* floor(1000 * pi)
PiThousandths == 3141

pi == <<0, 1>>

epsilon == <<1, 0>>

\* x + y and x - y on floats; nan if either is
Plus(x, y) ==
    IF x = NotANumber \/ y = NotANumber THEN NotANumber
    ELSE <<x[1] + y[1], x[2] + y[2]>>

Minus(x, y) ==
    IF x = NotANumber \/ y = NotANumber THEN NotANumber
    ELSE <<x[1] - y[1], x[2] - y[2]>>

\* x < y on floats: false if either is nan
Less(x, y) ==
    IF x = NotANumber \/ y = NotANumber THEN FALSE
    ELSE LET a == x[1] - y[1]
             b == y[2] - x[2]
         IN  IF b = 0 THEN a < 0
             ELSE IF b > 0 THEN a <= b * PiThousandths
             ELSE a < b * PiThousandths

\* Python's min(a, b) and max(a, b): the first argument unless the second
\* compares smaller (greater)
pymin(a, b) == IF Less(b, a) THEN b ELSE a

pymax(a, b) == IF Less(a, b) THEN b ELSE a

\* rotatePhi without its clamp
rotatePhiUnclamped(phi, increment) == Plus(phi, increment)

\* Camera.rotatePhi: the new value of self.phi
rotatePhi(phi, increment) ==
    pymax(pymin(Plus(phi, increment), pymax(epsilon, Minus(pi, epsilon))),
          pymin(epsilon, Minus(pi, epsilon)))

\* Camera.rotateTheta: the new value of self.theta
rotateTheta(theta, increment) == Plus(theta, increment)

\* Camera.zoomRadius: the new value of self.radius (0.0001 is 1)
zoomRadius(radius, increment) ==
    IF radius + increment <= 1 THEN 1 ELSE radius + increment

\* no camera, no render loop: the scripts of marching_cubes.py
NoCamera == [radius |-> 0, theta |-> <<0, 0>>, phi |-> <<0, 0>>]

NoLoop == [dr |-> 0, x_press |-> <<>>, y_press |-> <<>>]

NoCall == [name |-> "", increment |-> <<0, 0>>]

\* argv when the functions are called directly and not from the command line
NoArgv ==
    [n |-> 0, name |-> "", isovalue |-> 0, volume_min |-> 0, volume_max |-> 0,
     stepsize |-> 0]
NoResult == [vertices |-> <<>>, normals |-> <<>>]

(***************************************************************************)
(* The script: marching_cubes, compute_normals, writePLY, then the viewer's *)
(* readPLY of the file written.                                            *)
(***************************************************************************)
Init ==
    /\ pc = "start"
    /\ args \in Inputs
    /\ iy = 0 /\ ix = 0 /\ iz = 0
    /\ case = 0
    /\ edge_indices = <<>>
    /\ cube_vertices = <<>>
    /\ mesh_vertices = <<>>
    /\ vertices = <<>>
    /\ normals = <<>>
    /\ file = NoFile
    /\ ply = Raised
    /\ visited = <<>>
    /\ run = 1
    /\ prev = NoResult
    /\ argv = NoArgv
    /\ exception = NoError
    /\ camera = NoCamera
    /\ loop = NoLoop
    /\ called = NoCall

\* the call of marching_cubes, up to the head of the loops
CallMarchingCubes ==
    /\ pc = "start"
    /\ mesh_vertices' = FreshMesh(mesh_vertices)
    /\ visited' = <<>>
    /\ IF ArangeFails(args.stepsize)
       THEN /\ pc' = "error"
            /\ \E type \in ArangeErrors : exception' = Error(type)
            /\ UNCHANGED <<iy, ix, iz, vertices>>
       ELSE IF Len(Axis) = 0
       THEN /\ pc' = "normals"
            /\ vertices' = mesh_vertices'
            /\ UNCHANGED <<iy, ix, iz, exception>>
       ELSE /\ pc' = "scan"
            /\ iy' = 1 /\ ix' = 1 /\ iz' = 1
            /\ UNCHANGED <<vertices, exception>>
    /\ UNCHANGED <<args, case, edge_indices, cube_vertices, normals, file, ply, run, prev,
                   argv, camera, loop, called>>

\* one pass of the innermost loop body; after the last one, the return
CubeStep ==
    /\ pc = "scan"
    /\ LET o    == Origin(iy, ix, iz)
           next == LoopNext(iy, ix, iz, Len(Axis))
       IN  /\ case' = CubeCase(args.scalar_field, args.isovalue, o[1], o[2], o[3], args.stepsize)
           /\ edge_indices' = _lookup_configuration(case')
           /\ visited' = Append(visited, o)
           /\ IF edge_indices' = IndexError
              THEN /\ pc' = "error"
                   /\ exception' = Error("IndexError")
                   /\ UNCHANGED <<cube_vertices, mesh_vertices, vertices, iy, ix, iz>>
              ELSE /\ cube_vertices' = _get_vertex_positions(edge_indices', o, args.stepsize)
                   /\ mesh_vertices' = AppendAll(mesh_vertices, cube_vertices')
                   /\ iy' = next[1] /\ ix' = next[2] /\ iz' = next[3]
                   /\ UNCHANGED exception
                   /\ IF next[1] > Len(Axis)
                      THEN pc' = "normals" /\ vertices' = mesh_vertices'
                      ELSE pc' = "scan" /\ UNCHANGED vertices
    /\ UNCHANGED <<args, normals, file, ply, run, prev, argv, camera, loop, called>>

ComputeNormals ==
    /\ pc = "normals"
    /\ normals' = compute_normals(vertices)
    /\ pc' = IF normals' = IndexError THEN "error" ELSE "write"
    /\ exception' = IF normals' = IndexError THEN Error("IndexError") ELSE exception
    /\ UNCHANGED <<args, iy, ix, iz, case, edge_indices, cube_vertices, mesh_vertices,
                   vertices, file, ply, visited, run, prev, argv, camera, loop, called>>

WritePLY ==
    /\ pc = "write"
    /\ LET written == writePLY(vertices, normals, args.scalar_field.kind)
       IN  /\ file' = written.lines
           /\ pc' = IF written.ok THEN "read" ELSE "error"
           /\ exception' = IF written.ok THEN exception ELSE Error("IndexError")
    /\ UNCHANGED <<args, iy, ix, iz, case, edge_indices, cube_vertices, mesh_vertices,
                   vertices, normals, ply, visited, run, prev, argv, camera, loop, called>>

ReadPLY ==
    /\ pc = "read"
    /\ ply' = readPLY(file)
    /\ pc' = "done"
    /\ UNCHANGED <<args, iy, ix, iz, case, edge_indices, cube_vertices, mesh_vertices,
                   vertices, normals, file, visited, run, prev, argv, exception,
                   camera, loop, called>>

\* the same command line once more: a second invocation after the first
Reinvoke ==
    /\ pc = "done"
    /\ run < 2
    /\ run' = run + 1
    /\ prev' = [vertices |-> vertices, normals |-> normals]
    /\ pc' = "start"
    /\ UNCHANGED <<args, iy, ix, iz, case, edge_indices, cube_vertices, mesh_vertices,
                   vertices, normals, file, ply, visited, argv, exception,
                   camera, loop, called>>

Next ==
    \/ CallMarchingCubes
    \/ CubeStep
    \/ ComputeNormals
    \/ WritePLY
    \/ ReadPLY
    \/ Reinvoke

Spec == Init /\ [][Next]_vars

(***************************************************************************)
(* The script: marching_cubes.py run from the command line.                *)
(***************************************************************************)

\* float(token): a numeral with or without a fraction, in quarters
IsNumber(tok) == IsInt(tok) \/ (Places(tok, "/") = {} /\ IsFloat(tok))

float(tok) == IF IsInt(tok) THEN 4 * ParseInt(tok) ELSE ParseFloat(tok)

\* a selector that lets one more name through
ScalarFieldNamesAndSphere == {"wavy", "hyperboloid", "sphere"}

ScalarFieldNames == {"wavy", "hyperboloid"}

NoArgs ==
    [scalar_field |-> [kind |-> "", p |-> 0], isovalue |-> 0, volume_min |-> 0,
     volume_max |-> 0, stepsize |-> 0]

\* tokens for volume_min and volume_max: whole numbers, and one that is not
VolumeTokens == {FormatInt(k) : k \in (-MaxWorld)..MaxWorld} \cup {FormatFloat(2)}

\* tokens for stepsize: positive, zero and negative
StepsizeTokens == {FormatFloat(s) : s \in Stepsizes \cup {0, -2}}

\* sys.argv: n tokens; the six after the program name matter when n = 7
CommandLines ==
    {[n |-> 7, name |-> f, isovalue |-> FormatFloat(0), volume_min |-> a,
      volume_max |-> b, stepsize |-> s] :
        f \in ScalarFieldNames \cup {"sphere"}, a \in VolumeTokens,
        b \in VolumeTokens, s \in StepsizeTokens}
    \cup {[n |-> k, name |-> f, isovalue |-> FormatFloat(0), volume_min |-> FormatInt(0),
           volume_max |-> FormatInt(1), stepsize |-> FormatFloat(2)] :
              k \in (1..8) \ {7}, f \in ScalarFieldNames \cup {"sphere"}}

InitCLI ==
    /\ pc = "argv"
    /\ argv \in CommandLines
    /\ args = NoArgs
    /\ iy = 0 /\ ix = 0 /\ iz = 0
    /\ case = 0
    /\ edge_indices = <<>>
    /\ cube_vertices = <<>>
    /\ mesh_vertices = <<>>
    /\ vertices = <<>>
    /\ normals = <<>>
    /\ file = NoFile
    /\ ply = NoResult
    /\ visited = <<>>
    /\ run = 1
    /\ prev = NoResult
    /\ exception = NoError
    /\ camera = NoCamera
    /\ loop = NoLoop
    /\ called = NoCall

\* the script down to the call of marching_cubes: the argument count, the
\* field selector, then the conversions of the call's arguments
ParseArgs ==
    /\ pc = "argv"
    /\ IF argv.n # 7
       THEN /\ pc' = "error"
            /\ exception' = Error("TypeError")
            /\ UNCHANGED args
       ELSE IF argv.name \notin ScalarFieldNames
       THEN /\ pc' = "error"
            /\ exception' = [type |-> "ValueError", names |-> ScalarFieldNames]
            /\ UNCHANGED args
       ELSE IF ~ /\ IsNumber(argv.isovalue)
                 /\ IsInt(argv.volume_min)
                 /\ IsInt(argv.volume_max)
                 /\ IsNumber(argv.stepsize)
       THEN /\ pc' = "error"
            /\ exception' = Error("ValueError")
            /\ UNCHANGED args
       ELSE /\ pc' = "start"
            /\ args' = [scalar_field |-> [kind |-> argv.name, p |-> 0],
                        isovalue     |-> 4 * float(argv.isovalue),
                        volume_min   |-> 4 * ParseInt(argv.volume_min),
                        volume_max   |-> 4 * ParseInt(argv.volume_max),
                        stepsize     |-> float(argv.stepsize)]
            /\ UNCHANGED exception
    /\ UNCHANGED <<iy, ix, iz, case, edge_indices, cube_vertices, mesh_vertices,
                   vertices, normals, file, ply, visited, run, prev, argv, camera, loop, called>>

NextCLI ==
    \/ ParseArgs
    \/ CallMarchingCubes
    \/ CubeStep
    \/ ComputeNormals
    \/ WritePLY
    \/ ReadPLY

SpecCLI == InitCLI /\ [][NextCLI]_vars

(***************************************************************************)
(* The camera of render.py: its methods called on their own, and the       *)
(* render loop, which calls the three of them in every frame.              *)
(***************************************************************************)
\* theta stays within MaxTheta thousandths, dr within MaxDr, the radius
\* below MaxRadius
MaxTheta == 1000

MaxDr == 100

MaxRadius == 200

\* Camera(center) for a center like that of render.py, (5, 5, 5) scaled
\* down, and for centers next to the y axis, above and below
Cameras ==
    {[radius |-> 100, theta |-> <<785, 0>>, phi |-> <<955, 0>>],
     [radius |-> 100, theta |-> <<785, 0>>, phi |-> <<0, 0>>],
     [radius |-> 100, theta |-> <<785, 0>>, phi |-> pi]}

\* increments of an angle: small, large, either way, and nan
AngleIncrements ==
    {<<a, 0>> : a \in {-4000, -1000, 1000}} \cup {NotANumber}

RadiusIncrements == {-100, 100}

\* where the cursor can be, in pixels
CursorXs == {0, 200}

CursorYs == {0, 800}

InitCamera ==
    /\ pc = "camera"
    /\ camera \in Cameras
    /\ loop = NoLoop
    /\ called = NoCall
    /\ args = NoArgs
    /\ argv = NoArgv
    /\ iy = 0 /\ ix = 0 /\ iz = 0
    /\ case = 0
    /\ edge_indices = <<>>
    /\ cube_vertices = <<>>
    /\ mesh_vertices = <<>>
    /\ vertices = <<>>
    /\ normals = <<>>
    /\ file = NoFile
    /\ ply = NoResult
    /\ visited = <<>>
    /\ run = 1
    /\ prev = NoResult
    /\ exception = NoError

NotCamera ==
    UNCHANGED <<pc, args, iy, ix, iz, case, edge_indices, cube_vertices, mesh_vertices,
                vertices, normals, file, ply, visited, run, prev, argv, exception>>

\* camera.rotatePhi(increment), called by any code
RotatePhi ==
    /\ pc = "camera"
    /\ \E increment \in AngleIncrements :
           /\ camera' = [camera EXCEPT !.phi = rotatePhi(camera.phi, increment)]
           /\ called' = [name |-> "rotatePhi", increment |-> increment]
    /\ UNCHANGED loop
    /\ NotCamera

\* camera.rotateTheta(increment), called by any code
RotateTheta ==
    /\ pc = "camera"
    /\ \E increment \in AngleIncrements :
           /\ camera' = [camera EXCEPT !.theta = rotateTheta(camera.theta, increment)]
           /\ Abs(camera'.theta[1]) <= MaxTheta
           /\ called' = [name |-> "rotateTheta", increment |-> increment]
    /\ UNCHANGED loop
    /\ NotCamera

\* camera.zoomRadius(increment), called by any code
ZoomRadius ==
    /\ pc = "camera"
    /\ \E increment \in RadiusIncrements :
           /\ camera' = [camera EXCEPT !.radius = zoomRadius(camera.radius, increment)]
           /\ camera'.radius <= MaxRadius
           /\ called' = [name |-> "zoomRadius", increment |-> <<increment, 0>>]
    /\ UNCHANGED loop
    /\ NotCamera

\* one pass of the render loop: the arrow keys, the mouse, then zoomRadius(dr),
\* rotateTheta(0.005 * dx) and rotatePhi(-0.005 * dy).  (dx and dy are set
\* anew in every pass before they are used, so the loop need not keep them.)
Frame ==
    /\ pc = "camera"
    /\ \E key \in {"up", "down", "none"}, mouse \in {"press", "release"},
          x_cursor \in CursorXs, y_cursor \in CursorYs :
           LET dr == IF key = "up" THEN loop.dr - 100
                     ELSE IF key = "down" THEN loop.dr + 100
                     ELSE 0
               first   == loop.x_press = <<>>
               x_press == IF first THEN x_cursor ELSE loop.x_press[1]
               y_press == IF first THEN y_cursor ELSE loop.y_press[1]
               dx == IF mouse = "press" THEN x_cursor - x_press ELSE 0
               dy == IF mouse = "press" THEN y_cursor - y_press ELSE 0
           IN  /\ Abs(dr) <= MaxDr
               /\ loop' = [dr |-> dr,
                           x_press |-> IF mouse = "press" THEN <<x_cursor>> ELSE <<>>,
                           y_press |-> IF mouse = "press" THEN <<y_cursor>> ELSE <<>>]
               /\ camera' = [radius |-> zoomRadius(camera.radius, dr),
                             theta  |-> rotateTheta(camera.theta, <<5 * dx, 0>>),
                             phi    |-> rotatePhi(camera.phi, <<-5 * dy, 0>>)]
               /\ camera'.radius <= MaxRadius
               /\ Abs(camera'.theta[1]) <= MaxTheta
               /\ called' = [name |-> "frame", increment |-> <<-5 * dy, 0>>]
    /\ NotCamera

NextCamera ==
    \/ RotatePhi
    \/ RotateTheta
    \/ ZoomRadius
    \/ Frame

SpecCamera == InitCamera /\ [][NextCamera]_vars

(***************************************************************************)
(* _lookup_configuration called on its own, with any integer.              *)
(***************************************************************************)
MaxCase == 300

InitLookup ==
    /\ pc = "lookup"
    /\ case \in (-MaxCase)..MaxCase
    /\ args = NoArgs
    /\ argv = NoArgv
    /\ iy = 0 /\ ix = 0 /\ iz = 0
    /\ edge_indices = <<>>
    /\ cube_vertices = <<>>
    /\ mesh_vertices = <<>>
    /\ vertices = <<>>
    /\ normals = <<>>
    /\ file = NoFile
    /\ ply = NoResult
    /\ visited = <<>>
    /\ run = 1
    /\ prev = NoResult
    /\ exception = NoError
    /\ camera = NoCamera
    /\ loop = NoLoop
    /\ called = NoCall

\* return lookup_table[case], or the IndexError of the subscript
Lookup ==
    /\ pc = "lookup"
    /\ edge_indices' = _lookup_configuration(case)
    /\ IF edge_indices' = IndexError
       THEN pc' = "error" /\ exception' = Error("IndexError")
       ELSE pc' = "returned" /\ UNCHANGED exception
    /\ UNCHANGED <<args, iy, ix, iz, case, cube_vertices, mesh_vertices, vertices,
                   normals, file, ply, visited, run, prev, argv, camera, loop, called>>

NextLookup == Lookup

SpecLookup == InitLookup /\ [][NextLookup]_vars

(***************************************************************************)
(* compute_normals and writePLY called on their own, with meshes that      *)
(* marching_cubes does not produce, and with a disk that can fail.         *)
(***************************************************************************)

\* one triangle, each coordinate 0 or 0.5
Triangles == [1..9 -> {0, 2}]

OneTriangle == <<0, 0, 0, 2, 0, 0, 0, 2, 0>>

TwoTriangles == OneTriangle \o <<0, 0, 4, 2, 0, 4, 0, 2, 4>>

\* the arguments of a call writePLY(vertices, normals, ...): the computed
\* normals, or fewer of them
WriteCalls ==
    UNION {{<<vs, SubSeq(compute_normals(vs), 1, k)>> : k \in 0..Len(vs)} :
              vs \in {OneTriangle, TwoTriangles}}

InitMesh ==
    /\ \/ /\ pc = "normals"
          /\ vertices \in Triangles
          /\ normals = <<>>
       \/ /\ pc = "write"
          /\ \E call \in WriteCalls : vertices = call[1] /\ normals = call[2]
    /\ args = NoArgs
    /\ argv = NoArgv
    /\ iy = 0 /\ ix = 0 /\ iz = 0
    /\ case = 0
    /\ edge_indices = <<>>
    /\ cube_vertices = <<>>
    /\ mesh_vertices = <<>>
    /\ file = NoFile
    /\ ply = NoResult
    /\ visited = <<>>
    /\ run = 1
    /\ prev = NoResult
    /\ exception = NoError
    /\ camera = NoCamera
    /\ loop = NoLoop
    /\ called = NoCall

\* writePLY when a write fails: the lines written before it stay in the
\* file that open(filepath, "w") created
WritePLYFails ==
    /\ pc = "write"
    /\ LET written == writePLY(vertices, normals, args.scalar_field.kind)
       IN  \E k \in 0..(Len(written.lines) - 1) : file' = SubSeq(written.lines, 1, k)
    /\ pc' = "error"
    /\ exception' = Error("OSError")
    /\ UNCHANGED <<args, iy, ix, iz, case, edge_indices, cube_vertices, mesh_vertices,
                   vertices, normals, ply, visited, run, prev, argv, camera, loop, called>>

NextMesh ==
    \/ ComputeNormals
    \/ WritePLY
    \/ WritePLYFails

SpecMesh == InitMesh /\ [][NextMesh]_vars


(***************************************************************************)
(* Properties.                                                             *)
(***************************************************************************)
\* a cube has been handled: case, edge_indices and cube_vertices are its
Handled == visited # <<>> /\ pc # "start"

LastOrigin == visited[Len(visited)]

\* C1: the table has exactly 256 rows; for every configuration c in 0..255
\* the row looked up is defined, its length is a multiple of 3 and each of
\* its elements is an edge index in 0..11 (the table never changes: it is
\* examined at each start); so is the row of every cube handled.
C1_RowsWellFormed ==
    /\ pc = "start" =>
           /\ Len(lookup_table) = 256
           /\ \A c \in 0..255 :
                  LET row == _lookup_configuration(c)
                  IN  /\ Len(row) % 3 = 0
                      /\ \A i \in 1..Len(row) : row[i] \in 0..11
    /\ Handled =>
           /\ Len(edge_indices) % 3 = 0
           /\ \A i \in 1..Len(edge_indices) : edge_indices[i] \in 0..11

\* a cube whose row is one of the longest (five triangles) has been handled
C1_Witness == Handled /\ Len(edge_indices) = 15 /\ case \in 1..254

\* the corners of the cube at origin o with their bits, as the claim lists them
CornerBits(o, s) == {
    << <<o[1],     o[2],     o[3]    >>, 1   >>,
    << <<o[1] + s, o[2],     o[3]    >>, 2   >>,
    << <<o[1] + s, o[2],     o[3] + s>>, 4   >>,
    << <<o[1],     o[2],     o[3] + s>>, 8   >>,
    << <<o[1],     o[2] + s, o[3]    >>, 16  >>,
    << <<o[1] + s, o[2] + s, o[3]    >>, 32  >>,
    << <<o[1] + s, o[2] + s, o[3] + s>>, 64  >>,
    << <<o[1],     o[2] + s, o[3] + s>>, 128 >> }

Below(corner) ==
    scalar_field(args.scalar_field, corner[1], corner[2], corner[3]) < args.isovalue

HasBit(n, bit) == (n \div bit) % 2 = 1

\* C2: for the cube handled, the configuration looked up has a corner's bit
\* set if and only if the field at that corner is strictly below the isovalue
\* (a value equal to the isovalue counts as outside), and has no other bit.
C2_BitsMatchCorners ==
    Handled =>
        /\ case \in 0..255
        /\ \A cb \in CornerBits(LastOrigin, args.stepsize) :
               HasBit(case, cb[2]) <=> Below(cb[1])
        /\ edge_indices = lookup_table[case + 1]

\* a cube with corners on both sides, one of them exactly at the isovalue
C2_Witness ==
    /\ Handled
    /\ case \in 1..254
    /\ \E cb \in CornerBits(LastOrigin, args.stepsize) :
           /\ scalar_field(args.scalar_field, cb[1][1], cb[1][2], cb[1][3]) = args.isovalue
           /\ ~HasBit(case, cb[2])

\* C3: the rows of configurations 0 and 255 are empty, so a cube whose 8
\* corners are all outside or all inside contributes no vertices.
C3_UniformCubeEmpty ==
    /\ _lookup_configuration(0) = <<>>
    /\ _lookup_configuration(255) = <<>>
    /\ (/\ Handled
        /\ \/ \A cb \in CornerBits(LastOrigin, args.stepsize) : Below(cb[1])
           \/ \A cb \in CornerBits(LastOrigin, args.stepsize) : ~Below(cb[1]))
       => /\ edge_indices = <<>>
          /\ cube_vertices = <<>>

\* a cube wholly inside was handled after a cube that gave vertices, and the
\* mesh still ends with the vertices of the earlier cube
C3_Witness ==
    /\ Handled
    /\ case = 255
    /\ cube_vertices = <<>>
    /\ mesh_vertices # <<>>

\* coordinate number ax of the midpoint of edge e of the cube at o, doubled
DoubledMidpoint(e, o, s, ax) == 2 * o[ax] + s * edge_midpoints[e + 1][ax]

\* out lists, in the order of L, origin + stepsize * midpoint for each edge of L
IsPositionsOf(out, L, o, s) ==
    /\ Len(out) = 3 * Len(L)
    /\ \A i \in 1..Len(L) : \A ax \in 1..3 :
           2 * out[3 * (i - 1) + ax] = DoubledMidpoint(L[i], o, s, ax)

\* the lists of at most two edge indices
ShortLists == {<<>>} \cup {<<a>> : a \in 0..11} \cup {<<a, b>> : a, b \in 0..11}

\* C4: _get_vertex_positions returns 3 * len(L) numbers, the i-th triple
\* being origin + stepsize * edge_midpoints[L[i]], in the order of L: for
\* the row of every cube handled, and for every short list at the first cube.
C4_PositionsFollowList ==
    /\ Handled /\ pc # "error" =>
           IsPositionsOf(cube_vertices, edge_indices, LastOrigin, args.stepsize)
    /\ pc = "start" =>
           LET o == <<args.volume_min, args.volume_min, args.volume_min>>
           IN  \A L \in ShortLists :
                   IsPositionsOf(_get_vertex_positions(L, o, args.stepsize), L, o, args.stepsize)

\* a cube with two triangles or more, away from the origin of the axes
C4_Witness ==
    /\ Handled
    /\ Len(edge_indices) >= 6
    /\ Len(cube_vertices) = 3 * Len(edge_indices)
    /\ LastOrigin[1] # 0
    /\ args.stepsize # 2


\* the lattice of one axis: volume_min, volume_min + stepsize, ... below volume_max
LatticePoints ==
    {c \in args.volume_min..(args.volume_max - 1) :
        (c - args.volume_min) % args.stepsize = 0}

LatticeSize == Cardinality(LatticePoints)

\* the origin visited k-th (k = 1, 2, ...) when y is the outer loop, x the
\* middle one and z the inner one, each ascending
ExpectedOrigin(k) ==
    LET j == k - 1
        n == LatticeSize
    IN  << args.volume_min + ((j \div n) % n) * args.stepsize,
           args.volume_min + (j \div (n * n)) * args.stepsize,
           args.volume_min + (j % n) * args.stepsize >>

\* the vertex list of the cube at origin o
PerCube(o) ==
    _get_vertex_positions(
        _lookup_configuration(
            CubeCase(args.scalar_field, args.isovalue, o[1], o[2], o[3], args.stepsize)),
        o, args.stepsize)

\* C5: marching_cubes starts from an empty mesh; its k-th step handles the
\* k-th origin of the lattice in the order y outer, x middle, z inner (each
\* ascending, each coordinate on the lattice below volume_max) and appends
\* that cube's vertex list to the mesh; it returns after the last origin, when
\* every origin has been visited exactly once, and returns the mesh so built.
C5_LatticeOrder ==
    [][ /\ pc = "start" =>
               /\ visited' = <<>>
               /\ mesh_vertices' = <<>>
               /\ (pc' = "normals") <=> (LatticeSize = 0)
        /\ pc = "scan" =>
               LET k == Len(visited) + 1
               IN  /\ visited' = Append(visited, ExpectedOrigin(k))
                   /\ \A ax \in 1..3 : ExpectedOrigin(k)[ax] \in LatticePoints
                   /\ mesh_vertices' = mesh_vertices \o PerCube(ExpectedOrigin(k))
                   /\ pc' \in {"scan", "normals"}
                   /\ (pc' = "normals") <=> (k = LatticeSize * LatticeSize * LatticeSize)
        /\ (pc # "normals" /\ pc' = "normals") =>
               /\ vertices' = mesh_vertices'
               /\ Len(visited') = LatticeSize * LatticeSize * LatticeSize
               /\ {visited'[i] : i \in 1..Len(visited')}
                      = LatticePoints \X LatticePoints \X LatticePoints
      ]_vars

\* a scan of 8 cubes or more has returned vertices; z moved first, then x
C5_Witness ==
    /\ pc = "normals"
    /\ Len(visited) >= 8
    /\ vertices # <<>>
    /\ visited[2][3] > visited[1][3]
    /\ visited[LatticeSize + 1][1] > visited[1][1]
    /\ visited[Len(visited)][2] > visited[1][2]

\* C6: the vertex sequence returned has a length that is a multiple of 9, and
\* compute_normals returns a normal sequence of exactly that length.
C6_LengthsAgree ==
    /\ pc \in {"normals", "write", "read", "done"} => Len(vertices) % 9 = 0
    /\ pc \in {"write", "read", "done"} => Len(normals) = Len(vertices)
    /\ pc # "error"

\* normals were computed for a mesh of two triangles or more
C6_Witness == pc = "write" /\ Len(vertices) >= 18 /\ Len(normals) = Len(vertices)

\* C7: a second invocation with the same arguments, made after the first in
\* the same process, returns the same vertex and normal sequences.
C7_SecondRunIdentical ==
    /\ (run = 2 /\ pc \in {"normals", "write", "read", "done"})
           => vertices = prev.vertices
    /\ (run = 2 /\ pc \in {"write", "read", "done"})
           => normals = prev.normals

\* the second invocation has ended, with a mesh that is not empty
C7_Witness == run = 2 /\ pc = "done" /\ vertices # <<>> /\ normals # <<>>

Sign(n) == IF n < 0 THEN -1 ELSE IF n > 0 THEN 1 ELSE 0

\* r is the real c / |v|, for a component c of the vector v
IsComponentOf(r, c, v) ==
    IF Dot(v, v) = 0 THEN r = NaN
    ELSE /\ r[2] > 0
         /\ Sign(r[1]) = Sign(c)
         /\ Abs(r[1]) * Dot(v, v) = r[2] * c * c

Triple(seq, first) == <<seq[first], seq[first + 1], seq[first + 2]>>

\* the cross product a x b of the claim
CrossProduct(a, b) ==
    << a[2] * b[3] - a[3] * b[2],
       a[3] * b[1] - a[1] * b[3],
       a[1] * b[2] - a[2] * b[1] >>

\* C8: for every triangle k (vertices A, B, C at positions 9k .. 9k+8) the
\* three normals written for it are one and the same vector, and that vector
\* is the cross product of B - A and C - A divided by its length.
C8_FlatNormals ==
    pc \in {"write", "read", "done"} =>
        \A k \in 0..((Len(vertices) \div 9) - 1) :
            LET A == Triple(vertices, 9 * k + 1)
                B == Triple(vertices, 9 * k + 4)
                C == Triple(vertices, 9 * k + 7)
                v == CrossProduct(Sub(B, A), Sub(C, A))
                n == Triple(normals, 9 * k + 1)
            IN  /\ Triple(normals, 9 * k + 4) = n
                /\ Triple(normals, 9 * k + 7) = n
                /\ \A ax \in 1..3 : IsComponentOf(n[ax], v[ax], v)

\* normals were computed for two triangles that face different ways
C8_Witness ==
    /\ pc = "write"
    /\ Len(normals) >= 18
    /\ Triple(normals, 1) # Triple(normals, 10)
    /\ Triple(normals, 1) # <<NaN, NaN, NaN>>

\* the indices named by the face records of the file, in order
FaceIndices(N, M) ==
    [i \in 1..(3 * M) |-> ParseInt(file[13 + N + ((i - 1) \div 3) + 1][((i - 1) % 3) + 2])]

\* what the reader does return as written: the vertices and the normals
RoundTripOfVertices ==
    pc = "done" => ply.ok /\ ply.vertices = vertices /\ ply.normals = normals

\* C9: the file written declares N = len(vertices) / 3 vertices and M = N / 3
\* faces, then holds N vertex records (the i-th: the position and the normal
\* of vertex i, 6 numbers) and M face records (the k-th: 3, 3k, 3k+1, 3k+2);
\* no index is named by two faces and every index is below N.
C9_FileLayout ==
    pc \in {"read", "done"} =>
        LET N == Len(vertices) \div 3
            M == N \div 3
        IN  /\ Len(file) = 13 + N + M
            /\ file[4] = <<Word("element"), Word("vertex"), FormatInt(N)>>
            /\ ParseInt(file[4][3]) = N
            /\ file[11][1] = Word("element") /\ file[11][2] = Word("face")
            /\ ParseInt(file[11][3]) = M
            /\ file[13] = <<Word("end_header")>>
            /\ \A i \in 1..N :
                   /\ Len(file[13 + i]) = 6
                   /\ \A j \in 1..3 :
                          /\ ParseFloat(file[13 + i][j]) = vertices[3 * (i - 1) + j]
                          /\ ParseFloat(file[13 + i][3 + j]) = normals[3 * (i - 1) + j]
            /\ \A k \in 0..(M - 1) :
                   /\ Len(file[13 + N + k + 1]) = 4
                   /\ ParseInt(file[13 + N + k + 1][1]) = 3
                   /\ \A j \in 0..2 : ParseInt(file[13 + N + k + 1][2 + j]) = 3 * k + j
            /\ {FaceIndices(N, M)[i] : i \in 1..(3 * M)} \subseteq 0..(N - 1)
            /\ Cardinality({FaceIndices(N, M)[i] : i \in 1..(3 * M)}) = 3 * M

\* a file with two faces or more was written
C9_Witness == pc = "read" /\ Len(vertices) >= 18 /\ Len(file) > 13

\* C10: reading the file written returns the vertices and the normals that
\* were written, in order, and the face indices 0, 1, ..., N - 1.
C10_RoundTrip ==
    pc = "done" =>
        /\ ply.ok
        /\ ply.vertices = vertices
        /\ ply.normals = normals
        /\ ply.faces = [i \in 1..(Len(vertices) \div 3) |-> i - 1]

\* the call of marching_cubes has been made with these arguments
Called == pc # "argv" /\ args # NoArgs

InvalidArgs == args.stepsize <= 0 \/ args.volume_min >= args.volume_max

(***************************************************************************)
(* C11: when stepsize <= 0 or volume_min >= volume_max, marching_cubes     *)
(* rejects the input before scanning begins: the call never gets past its  *)
(* start other than by an error, it evaluates the field at no point and    *)
(* returns no mesh, neither an empty nor a degenerate one.                 *)
(***************************************************************************)
C11_InvalidRejected ==
    (Called /\ InvalidArgs) =>
        /\ pc \in {"start", "error"}
        /\ visited = <<>>
        /\ pc = "error" => exception.type # "none"

BadCommandLine == argv.n # 7 \/ argv.name \notin {"wavy", "hyperboloid"}

(***************************************************************************)
(* C15: when the command line does not have exactly six positional         *)
(* arguments, or the field selector is neither 'wavy' nor 'hyperboloid',   *)
(* the script ends with an error, which names the valid options in the     *)
(* selector case, before marching_cubes, compute_normals or writePLY is    *)
(* called: no field is evaluated and no file is written.                   *)
(***************************************************************************)
C15_BadCommandLineFails ==
    (pc # "argv" /\ BadCommandLine) =>
        /\ pc = "error"
        /\ exception.type = IF argv.n # 7 THEN "TypeError" ELSE "ValueError"
        /\ argv.n = 7 => exception.names = {"wavy", "hyperboloid"}
        /\ args = NoArgs
        /\ visited = <<>> /\ mesh_vertices = <<>> /\ vertices = <<>>
        /\ normals = <<>>
        /\ file = NoFile

C15_Witness ==
    /\ pc = "error"
    /\ argv.n = 7
    /\ argv.name = "sphere"
    /\ exception = [type |-> "ValueError", names |-> {"wavy", "hyperboloid"}]

(***************************************************************************)
(* C12: _lookup_configuration called with an integer outside 0..255, above *)
(* 255 or negative, ends with an error: it never returns an edge list for  *)
(* such an argument and never maps it onto a row of the table.             *)
(***************************************************************************)
C12_OutOfRangeAborts ==
    (pc # "lookup" /\ case \notin 0..255) =>
        /\ pc = "error"
        /\ exception.type = "IndexError"
        /\ edge_indices \notin {lookup_table[c + 1] : c \in 0..255}

\* the triangle that starts at coordinate index + 1 has no area
ZeroArea(vs, index) ==
    LET a == <<vs[index + 1], vs[index + 2], vs[index + 3]>>
        b == <<vs[index + 4], vs[index + 5], vs[index + 6]>>
        c == <<vs[index + 7], vs[index + 8], vs[index + 9]>>
    IN  Cross(Sub(b, a), Sub(c, a)) = <<0, 0, 0>>

(***************************************************************************)
(* C13: for a triangle of zero area in its input, compute_normals writes a *)
(* defined fallback normal for the triangle's three vertices: none of the  *)
(* nine components it appends is an undefined value.                       *)
(***************************************************************************)
C13_DegenerateFallback ==
    (pc # "normals" /\ normals = compute_normals(vertices) /\ normals # IndexError) =>
        \A t \in 0..((Len(vertices) \div 9) - 1) :
            ZeroArea(vertices, 9 * t) =>
                \A i \in 1..9 : normals[9 * t + i] # NaN

(***************************************************************************)
(* C14: writing the file is atomic for the caller: whatever is at the      *)
(* target path after a call of writePLY is the complete file, the header,  *)
(* every vertex record and every face record; a failure part-way through,  *)
(* of the disk or by normals shorter than the vertices, leaves no part of  *)
(* the file there.                                                         *)
(***************************************************************************)
C14_WriteAtomic ==
    file # NoFile =>
        LET written == writePLY(vertices, normals, args.scalar_field.kind)
        IN  /\ pc # "error"
            /\ written.ok
            /\ file = written.lines

\* of the cube handled, only the corner at the origin is below the isovalue
OnlyOriginBelow ==
    \A cb \in CornerBits(LastOrigin, args.stepsize) :
        Below(cb[1]) <=> (cb[1] = LastOrigin)

(***************************************************************************)
(* C16: a cube in which only the corner at the cube origin is below the    *)
(* isovalue gets configuration 1 and emits exactly one triangle, 9         *)
(* coordinates, from the edge indices 0, 8, 3 in that order: origin +      *)
(* stepsize * (0.5,0,0), origin + stepsize * (0,0.5,0) and origin +        *)
(* stepsize * (0,0,0.5).  (Doubled, to stay in whole numbers.)             *)
(***************************************************************************)
C16_SingleCorner ==
    (Handled /\ OnlyOriginBelow) =>
        LET o == LastOrigin
            s == args.stepsize
        IN  /\ case = 1
            /\ edge_indices = <<0, 8, 3>>
            /\ Len(cube_vertices) = 9
            /\ [i \in 1..9 |-> 2 * cube_vertices[i]]
                   = << 2 * o[1] + s, 2 * o[2],     2 * o[3],
                        2 * o[1],     2 * o[2] + s, 2 * o[3],
                        2 * o[1],     2 * o[2],     2 * o[3] + s >>
            /\ Len(mesh_vertices) >= 9
            /\ SubSeq(mesh_vertices, Len(mesh_vertices) - 8, Len(mesh_vertices))
                   = cube_vertices

\* such a cube of a sphere, away from the point (0, 0, 0)
C16_Witness ==
    /\ Handled
    /\ OnlyOriginBelow
    /\ args.scalar_field.kind = "sphere"
    /\ LastOrigin # <<0, 0, 0>>
    /\ Len(cube_vertices) = 9

(***************************************************************************)
(* C17: for a field that is constant and greater than the isovalue,        *)
(* every cube gets configuration 0 and marching_cubes returns an empty     *)
(* vertex sequence, for every volume_min < volume_max and stepsize > 0.    *)
(***************************************************************************)
C17_ConstantAboveEmpty ==
    (/\ args.scalar_field.kind = "constant"
     /\ args.scalar_field.p > args.isovalue
     /\ args.volume_min < args.volume_max
     /\ args.stepsize > 0) =>
        /\ Handled => (case = 0 /\ edge_indices = <<>> /\ cube_vertices = <<>>)
        /\ pc # "start" => mesh_vertices = <<>>
        /\ pc \in {"normals", "write", "read", "done"} =>
               (vertices = <<>> /\ Len(visited) >= 1)

\* the scan of 8 cubes or more of such a field has returned
C17_Witness ==
    /\ args.scalar_field.kind = "constant"
    /\ args.scalar_field.p > args.isovalue
    /\ args.volume_min < args.volume_max
    /\ pc = "normals"
    /\ Len(visited) >= 8
    /\ vertices = <<>>

\* the squares of the components of n add up to 1
UnitLength(n) ==
    /\ \A ax \in 1..3 : n[ax][2] > 0
    /\ Abs(n[1][1]) * n[2][2] * n[3][2] + Abs(n[2][1]) * n[1][2] * n[3][2]
           + Abs(n[3][1]) * n[1][2] * n[2][2]
         = n[1][2] * n[2][2] * n[3][2]

(***************************************************************************)
(* C18: for the planar field y - c with isovalue 0, every triangle emitted *)
(* has a normal, cross(B - A, C - A) normalized, that is parallel to the   *)
(* y axis and of unit length, and the y components of all the normals have *)
(* the same sign.                                                          *)
(***************************************************************************)
C18_PlaneNormals ==
    (/\ args.scalar_field.kind = "plane"
     /\ args.isovalue = 0
     /\ pc \in {"write", "read", "done"}) =>
        \A k \in 0..((Len(vertices) \div 9) - 1) :
            LET A == Triple(vertices, 9 * k + 1)
                B == Triple(vertices, 9 * k + 4)
                C == Triple(vertices, 9 * k + 7)
                v == CrossProduct(Sub(B, A), Sub(C, A))
                n == Triple(normals, 9 * k + 1)
            IN  /\ v[1] = 0 /\ v[3] = 0 /\ v[2] # 0
                /\ n[1] = <<0, 1>> /\ n[3] = <<0, 1>>
                /\ n[2] \in {<<1, 1>>, <<-1, 1>>}
                /\ Sign(n[2][1]) = Sign(v[2])
                /\ UnitLength(n)
                /\ n = Triple(normals, 1)

\* a plane that is not through the point (0, 0, 0) gave 8 triangles or more
C18_Witness ==
    /\ args.scalar_field = [kind |-> "plane", p |-> 1]
    /\ args.isovalue = 0
    /\ pc = "write"
    /\ Len(vertices) >= 72
    /\ Len(normals) = Len(vertices)

\* marching_cubes has returned its mesh
Returned == pc \in {"normals", "write", "read", "done"}

\* the volume holds the sphere of radius r about (0, 0, 0), with room to spare
CoversSphere(r) == args.volume_min < -r /\ args.volume_max > r

\* every corner of every cube visited
SampledCorners ==
    UNION {{cb[1] : cb \in CornerBits(visited[i], args.stepsize)} : i \in 1..Len(visited)}

\* the vertices of the mesh, as points
MeshPoints == {Triple(vertices, 3 * k + 1) : k \in 0..((Len(vertices) \div 3) - 1)}

\* | |p| - r | <= s, in squares
WithinOfSphere(p, r, s) ==
    /\ Dot(p, p) <= (r + s) * (r + s)
    /\ s >= r \/ Dot(p, p) >= (r - s) * (r - s)

(***************************************************************************)
(* C19 as stated: for the sphere field x^2 + y^2 + z^2 - r^2 with isovalue *)
(* 0 and bounds that cover the sphere with margin, marching_cubes emits at *)
(* least one vertex, and every emitted vertex p satisfies                  *)
(* | |p| - r | <= stepsize.                                                *)
(***************************************************************************)
C19_SphereMesh ==
    (/\ args.scalar_field.kind = "sphere"
     /\ args.isovalue = 0
     /\ CoversSphere(args.scalar_field.p)
     /\ Returned) =>
        /\ vertices # <<>>
        /\ \A p \in MeshPoints : WithinOfSphere(p, args.scalar_field.p, args.stepsize)

(***************************************************************************)
(* C19 amended: for the sphere field with isovalue 0, bounds that cover    *)
(* the sphere with margin and a stepsize for which at least one sampled    *)
(* cube corner lies strictly inside the sphere, marching_cubes emits at    *)
(* least one vertex; and whatever the stepsize, every emitted vertex p     *)
(* satisfies | |p| - r | <= stepsize.                                      *)
(***************************************************************************)
C19_SphereMeshSampled ==
    (/\ args.scalar_field.kind = "sphere"
     /\ args.isovalue = 0
     /\ CoversSphere(args.scalar_field.p)
     /\ Returned) =>
        /\ (\E c \in SampledCorners : Dot(c, c) < args.scalar_field.p * args.scalar_field.p)
               => vertices # <<>>
        /\ \A p \in MeshPoints : WithinOfSphere(p, args.scalar_field.p, args.stepsize)

\* a sphere sampled by cubes wider than its radius, the point (0, 0, 0) among
\* the corners, gave 8 triangles
C19_Witness ==
    /\ args.scalar_field.kind = "sphere"
    /\ args.isovalue = 0
    /\ CoversSphere(args.scalar_field.p)
    /\ args.stepsize > args.scalar_field.p
    /\ Returned
    /\ <<0, 0, 0>> \in SampledCorners
    /\ Len(vertices) = 72

\* the two corners edge e joins, as offsets 0 or 1 along each axis: the
\* midpoint of e with its 0.5 (1 when doubled) replaced by 0 and by 1
EdgeEnds(e) ==
    {[ax \in 1..3 |-> IF edge_midpoints[e + 1][ax] = 1 THEN end
                      ELSE edge_midpoints[e + 1][ax] \div 2] : end \in {0, 1}}

\* the bit marching_cubes sets for the corner at offset d, found by giving it
\* a unit cube in which that corner alone is below the isovalue
CornerBit(d) ==
    CubeCase([kind |-> "octants", p |-> Pow2(d[1] + 2 * d[2] + 4 * d[3])], 0, 0, 0, 0, 4)

\* the edges whose two corners have different bits in configuration c
CrossedEdges(c) ==
    {e \in 0..11 : \E a, b \in EdgeEnds(e) :
                       HasBit(c, CornerBit(a)) /\ ~HasBit(c, CornerBit(b))}

\* the edges with one corner below the isovalue and one not, in the cube at o
CrossedAt(o) ==
    {e \in 0..11 :
        \E a, b \in EdgeEnds(e) :
            /\ Below(<<o[1] + a[1] * args.stepsize, o[2] + a[2] * args.stepsize,
                       o[3] + a[3] * args.stepsize>>)
            /\ ~Below(<<o[1] + b[1] * args.stepsize, o[2] + b[2] * args.stepsize,
                        o[3] + b[3] * args.stepsize>>)}

EdgesIn(row) == {row[i] : i \in 1..Len(row)}

(***************************************************************************)
(* C20: the case table agrees with the bits of the corners and with the    *)
(* edge midpoints: for every configuration c in 0..255 (each is the        *)
(* pattern of one of the one-cube fields) the set of edge indices in       *)
(* _lookup_configuration(c) is exactly the set of edges whose two corners  *)
(* have different bits in c; so for every cube handled no vertex is put on *)
(* an edge the surface does not cross and no crossed edge is left unused.  *)
(***************************************************************************)
C20_TableMatchesCrossings ==
    /\ (pc = "start" /\ args.scalar_field.kind = "octants") =>
           /\ \A e \in 0..11 : Cardinality(EdgeEnds(e)) = 2
           /\ EdgesIn(_lookup_configuration(args.scalar_field.p))
                  = CrossedEdges(args.scalar_field.p)
    /\ Handled => EdgesIn(edge_indices) = CrossedAt(LastOrigin)

\* the cube whose below corners are the four no two of which share an edge:
\* all 12 edges are crossed and used
C20_Witness ==
    /\ Handled
    /\ case = 165
    /\ CrossedAt(LastOrigin) = 0..11
    /\ EdgesIn(edge_indices) = 0..11

\* the points at which the field is evaluated for the cube handled
EvaluatedPoints == {cb[1] : cb \in CornerBits(LastOrigin, args.stepsize)}

StepDivides == (args.volume_max - args.volume_min) % args.stepsize = 0

IsPrefix(a, b) == Len(a) <= Len(b) /\ SubSeq(b, 1, Len(a)) = a

(***************************************************************************)
(* C22: during the scan the mesh accumulator is append-only and cubes are  *)
(* independent: the accumulator before a step is a prefix of the           *)
(* accumulator after it, and what the step appends is the vertex list of   *)
(* the cube at the step's origin, a function of that origin, the stepsize, *)
(* the field and the isovalue alone, whatever the accumulator holds and    *)
(* whatever the other cubes are.                                           *)
(***************************************************************************)
C22_AppendOnly ==
    [][ pc = "scan" =>
            /\ IsPrefix(mesh_vertices, mesh_vertices')
            /\ SubSeq(mesh_vertices', Len(mesh_vertices) + 1, Len(mesh_vertices'))
                   = PerCube(visited'[Len(visited')])
            /\ cube_vertices' = PerCube(visited'[Len(visited')])
            /\ UNCHANGED args
      ]_vars

\* a cube added vertices behind those of earlier cubes, after a cube in
\* between that added none
C22_Witness ==
    /\ Handled
    /\ cube_vertices # <<>>
    /\ Len(mesh_vertices) > Len(cube_vertices)
    /\ Len(visited) >= 3
    /\ PerCube(visited[Len(visited) - 1]) = <<>>
    /\ IsPrefix(PerCube(visited[1]), mesh_vertices)

\* each consecutive triple of the row has three different edge indices
TriplesDistinct(row) ==
    \A t \in 0..((Len(row) \div 3) - 1) :
        Cardinality({row[3 * t + 1], row[3 * t + 2], row[3 * t + 3]}) = 3

\* the 12 midpoints are different points, no three of them on one line
MidpointsInGeneralPosition ==
    /\ Cardinality({edge_midpoints[e] : e \in 1..12}) = 12
    /\ \A a, b, c \in 1..12 :
           Cardinality({a, b, c}) = 3 =>
               CrossProduct(Sub(edge_midpoints[b], edge_midpoints[a]),
                            Sub(edge_midpoints[c], edge_midpoints[a])) # <<0, 0, 0>>

(***************************************************************************)
(* C23: in every row of the case table (each configuration is the pattern  *)
(* of one of the one-cube fields) each consecutive triple has three        *)
(* pairwise distinct edge indices; the 12 edge midpoints are distinct and  *)
(* never collinear; so for stepsize > 0 no triangle marching_cubes emits   *)
(* has zero area, and compute_normals on its output never normalizes a     *)
(* zero vector: no component of a normal is undefined.                     *)
(***************************************************************************)
C23_NoDegenerateTriangle ==
    /\ (pc = "start" /\ args.scalar_field.kind = "octants") =>
           /\ TriplesDistinct(_lookup_configuration(args.scalar_field.p))
           /\ MidpointsInGeneralPosition
    /\ Handled => TriplesDistinct(edge_indices)
    /\ (args.stepsize > 0 /\ pc # "start") =>
           \A t \in 0..((Len(mesh_vertices) \div 9) - 1) :
               LET A == Triple(mesh_vertices, 9 * t + 1)
                   B == Triple(mesh_vertices, 9 * t + 4)
                   C == Triple(mesh_vertices, 9 * t + 7)
               IN  CrossProduct(Sub(B, A), Sub(C, A)) # <<0, 0, 0>>
    /\ (args.stepsize > 0 /\ pc \in {"write", "read", "done"}) =>
           /\ Len(normals) = Len(vertices)
           /\ \A i \in 1..Len(normals) : normals[i] # NaN

\* normals were computed for a mesh that holds the five triangles of one cube
C23_Witness ==
    /\ pc = "write"
    /\ Len(edge_indices) = 15
    /\ Len(vertices) >= 45
    /\ Len(normals) = Len(vertices)

\* the corners of the cube handled are not all on one side of the isovalue
MixedCorners ==
    /\ \E cb \in CornerBits(LastOrigin, args.stepsize) : Below(cb[1])
    /\ \E cb \in CornerBits(LastOrigin, args.stepsize) : ~Below(cb[1])

(***************************************************************************)
(* C24: every mixed configuration c in 1..254 (each is the pattern of one  *)
(* of the one-cube fields) yields at least one and at most five triangles, *)
(* 3 <= len(_lookup_configuration(c)) <= 15; hence a cube contributes      *)
(* vertices to the mesh if and only if its 8 corners are not all on the    *)
(* same side of the isovalue, and never more than 15 vertices.             *)
(***************************************************************************)
C24_MixedCubeTriangles ==
    /\ (pc = "start" /\ args.scalar_field.kind = "octants"
           /\ args.scalar_field.p \in 1..254) =>
           LET row == _lookup_configuration(args.scalar_field.p)
           IN  3 <= Len(row) /\ Len(row) <= 15 /\ Len(row) % 3 = 0
    /\ Handled =>
           /\ (cube_vertices # <<>>) <=> MixedCorners
           /\ MixedCorners <=> (case \in 1..254)
           /\ Len(cube_vertices) = 3 * Len(edge_indices)
           /\ Len(cube_vertices) <= 3 * 15

\* a cube with corners on both sides gave five triangles, 15 vertices
C24_Witness ==
    /\ Handled
    /\ MixedCorners
    /\ Len(cube_vertices) = 45
    /\ mesh_vertices = cube_vertices

\* epsilon <= phi <= pi - epsilon, with epsilon = 0.001
PhiInRange(phi) ==
    /\ phi # NotANumber
    /\ ~Less(phi, <<1, 0>>)
    /\ ~Less(<<-1, 1>>, phi)

====
